---- MODULE Spec2Model ----
(***************************************************************************)
(* State-machine model of SpeedyTool (roblox-username-sniper):             *)
(*   rate_limiter.py           AdaptiveRateLimiter                         *)
(*   username_checker.py       UltraUsernameChecker                        *)
(*   advanced_optimizations.py AdvancedRequestOptimizer,                   *)
(*                             UltraFastBatchProcessor                     *)
(*                                                                         *)
(* Units.  Delays (base_delay, max_delay, current_delay, retry_delay) are  *)
(* integers in microseconds; the float products of the source are taken    *)
(* with floor at one microsecond.  Latencies are integers in milliseconds. *)
(* backoff_factor is held in tenths (12 stands for 1.2).  int(x * 1.1),    *)
(* int(x * 0.8) and int(x * 0.5) equal (11x) div 10, (8x) div 10 and       *)
(* x div 2 for every x in 0..100000 under IEEE doubles.                    *)
(***************************************************************************)
EXTENDS Integers, Sequences, FiniteSets, TLC

VARIABLES
    config,        \* Config instance of the run (config.py)
    rate_limiter,  \* AdaptiveRateLimiter fields (rate_limiter.py)
    pc,            \* position of every task
    calls,         \* number of record_success / record_error calls made directly
    attempt,       \* _check_single_username: the loop variable of every task
    tries,         \* network attempts a task has issued so far
    all_transient, \* every finished attempt of the task failed transiently
    released,      \* release() calls made during the current attempt of a task
    pending,       \* what a task does once it has left the try/finally block
    result,        \* what _check_single_username gave back, per task
    result_counts, \* UltraUsernameChecker.result_counts
    fallback,      \* _check_username_batch_fallback: position and batch_results
    usernames,     \* the list of identifiers handed to the checker
    sleeps,        \* the backoff sleeps of every task so far, in microseconds
    optimizer,     \* AdvancedRequestOptimizer fields (advanced_optimizations.py)
    now,           \* time.time(), in seconds since the run began
    proc,          \* process_usernames: position, loop variables, all_results
    batch,         \* process_batch_ultra_fast: usernames, semaphore, tasks
    monitor,       \* PerformanceMonitor metrics fed by process_usernames
    last_call,     \* the latest direct call of a method: its argument and what it gave back
    served,        \* the session pool as created, and the sessions get_next_session returned
    client_sessions, \* every aiohttp.ClientSession made so far: open or closed
    ctx            \* `async with UltraUsernameChecker(config)`: position and run outcome

limiterVars == <<rate_limiter, pc>>
checkerVars == <<attempt, tries, all_transient, released, pending, result, result_counts, fallback,
                 usernames, sleeps>>
batchVars == <<optimizer, now, proc, batch, monitor>>
callVars == <<last_call, served>>
lifeVars == <<client_sessions, ctx>>
vars == <<config, rate_limiter, pc, calls, attempt, tries, all_transient, released,
          pending, result, result_counts, fallback, usernames, sleeps, optimizer, now, proc,
          batch, monitor, last_call, served, client_sessions, ctx>>

----------------------------------------------------------------------------
(* Bounds of the model *)

NumTasks == 2
MaxCalls == 4
WarmUp == 8

Tasks == 1..NumTasks

----------------------------------------------------------------------------
(* Helpers *)

Min(a, b) == IF a < b THEN a ELSE b
Max(a, b) == IF a > b THEN a ELSE b

RECURSIVE SumSeq(_)
SumSeq(s) == IF s = << >> THEN 0 ELSE Head(s) + SumSeq(Tail(s))

\* base ** k for small k
RECURSIVE Pow(_, _)
Pow(base, k) == IF k = 0 THEN 1 ELSE base * Pow(base, k - 1)

\* s[-n:] of Python
LastN(s, n) == IF Len(s) <= n THEN s ELSE SubSeq(s, Len(s) - n + 1, Len(s))

----------------------------------------------------------------------------
(* config.py *)

DefaultConfig ==
    [ max_concurrent_requests     |-> 300,
      min_concurrent_requests     |-> 100,
      initial_concurrent_requests |-> 200,
      base_delay     |-> 100,
      max_delay      |-> 500000,
      backoff_factor |-> 12,
      max_retries    |-> 3,
      retry_delay    |-> 100000,
      batch_size     |-> 250,
      chunk_size     |-> 1000 ]

\* Config(min, initial, max, base_delay, max_delay, ...): the dataclass takes
\* any values; these are the ones the runs below are started with.
MakeConfig(lo, ini, hi, base, maxd, retries, per_batch, per_chunk) ==
    [ DefaultConfig EXCEPT
        !.max_concurrent_requests     = hi,
        !.min_concurrent_requests     = lo,
        !.initial_concurrent_requests = ini,
        !.base_delay  = base,
        !.max_delay   = maxd,
        !.max_retries = retries,
        !.batch_size  = per_batch,
        !.chunk_size  = per_chunk ]

LimiterConfigs ==
    { DefaultConfig,
      MakeConfig(1, 2, 3, 100, 500, 1, 2, 4),
      MakeConfig(10, 20, 21, 100, 500, 1, 2, 4) }

----------------------------------------------------------------------------
(* rate_limiter.py: AdaptiveRateLimiter *)

FastLatency == 100
SlowLatency == 900
Latencies == {FastLatency, SlowLatency}

\* the error_type strings the checker passes, the default, and one more
\* carrying the word "rate" in capitals
ErrorTypes ==
    {"429_rate_limit", "json_error", "http_500", "timeout", "client_error",
     "unknown", "RATE_EXCEEDED"}

\* "429" in error_type or "rate" in error_type.lower()
IsRateLimitSignal(error_type) == error_type \in {"429_rate_limit", "RATE_EXCEEDED"}

\* asyncio.Semaphore(value): _value and the FIFO of waiting tasks
NewSemaphore(value) == [value |-> value, waiters |-> << >>]

AdaptiveRateLimiter(cfg) ==
    [ semaphore             |-> NewSemaphore(cfg.initial_concurrent_requests),
      current_delay         |-> cfg.base_delay,
      current_concurrent    |-> cfg.initial_concurrent_requests,
      response_times        |-> << >>,
      error_count           |-> 0,
      success_count         |-> 0,
      consecutive_errors    |-> 0,
      consecutive_successes |-> 0 ]

\* _update_semaphore: a new Semaphore(current_concurrent) replaces the old
\* object; min(current_value, current_concurrent) is taken off its _value
\* when the old _value was positive.  Tasks waiting on the old object are not
\* carried over.
update_semaphore(rl) ==
    LET current_value == rl.semaphore.value
        fresh == rl.current_concurrent
        taken == IF current_value > 0 THEN Min(current_value, fresh) ELSE 0
    IN  [rl EXCEPT !.semaphore = NewSemaphore(fresh - taken)]

GoodResponseTimes(rl) ==
    /\ rl.consecutive_successes >= 10
    /\ rl.response_times # << >>
    /\ SumSeq(LastN(rl.response_times, 10)) < 500 * Min(10, Len(rl.response_times))

\* adapt_on_success with the floor of the delay at base_delay left out
adapt_on_success_no_floor(rl) ==
    IF GoodResponseTimes(rl)
    THEN LET old_concurrent == rl.current_concurrent
             new_concurrent ==
                 IF old_concurrent < config.max_concurrent_requests
                 THEN Min(config.max_concurrent_requests, (old_concurrent * 11) \div 10)
                 ELSE old_concurrent
             raised == [rl EXCEPT !.current_concurrent = new_concurrent]
             resized == IF new_concurrent # old_concurrent
                        THEN update_semaphore(raised) ELSE raised
         IN  [resized EXCEPT !.current_delay = (rl.current_delay * 9) \div 10]
    ELSE rl

adapt_on_success(rl) ==
    IF GoodResponseTimes(rl)
    THEN LET old_concurrent == rl.current_concurrent
             new_concurrent ==
                 IF old_concurrent < config.max_concurrent_requests
                 THEN Min(config.max_concurrent_requests, (old_concurrent * 11) \div 10)
                 ELSE old_concurrent
             raised == [rl EXCEPT !.current_concurrent = new_concurrent]
             resized == IF new_concurrent # old_concurrent
                        THEN update_semaphore(raised) ELSE raised
         IN  [resized EXCEPT !.current_delay =
                 Max(config.base_delay, (rl.current_delay * 9) \div 10)]
    ELSE rl

\* adapt_on_error with the floor of the concurrency at
\* min_concurrent_requests left out
adapt_on_error_no_floor(rl, error_type) ==
    LET backed ==
          IF IsRateLimitSignal(error_type)
          THEN [rl EXCEPT
                  !.current_delay = Min(config.max_delay,
                      (rl.current_delay * config.backoff_factor * 2) \div 10),
                  !.current_concurrent = rl.current_concurrent \div 2]
          ELSE [rl EXCEPT
                  !.current_delay = Min(config.max_delay,
                      (rl.current_delay * config.backoff_factor) \div 10),
                  !.current_concurrent = (rl.current_concurrent * 8) \div 10]
    IN  update_semaphore(backed)

\* adapt_on_error with the delay of a rate-limit error multiplied by
\* backoff_factor once, as for any other error
adapt_on_error_single_factor(rl, error_type) ==
    LET backed ==
          IF IsRateLimitSignal(error_type)
          THEN [rl EXCEPT
                  !.current_delay = Min(config.max_delay,
                      (rl.current_delay * config.backoff_factor) \div 10),
                  !.current_concurrent = Max(config.min_concurrent_requests,
                      rl.current_concurrent \div 2)]
          ELSE [rl EXCEPT
                  !.current_delay = Min(config.max_delay,
                      (rl.current_delay * config.backoff_factor) \div 10),
                  !.current_concurrent = Max(config.min_concurrent_requests,
                      (rl.current_concurrent * 8) \div 10)]
    IN  update_semaphore(backed)

adapt_on_error(rl, error_type) ==
    LET backed ==
          IF IsRateLimitSignal(error_type)
          THEN [rl EXCEPT
                  !.current_delay = Min(config.max_delay,
                      (rl.current_delay * config.backoff_factor * 2) \div 10),
                  !.current_concurrent = Max(config.min_concurrent_requests,
                      rl.current_concurrent \div 2)]
          ELSE [rl EXCEPT
                  !.current_delay = Min(config.max_delay,
                      (rl.current_delay * config.backoff_factor) \div 10),
                  !.current_concurrent = Max(config.min_concurrent_requests,
                      (rl.current_concurrent * 8) \div 10)]
    IN  update_semaphore(backed)

\* len(self.response_times) > 100; self.response_times[-50:]
WindowLimit == 100
WindowKeep == 50

\* s[:n] of Python
FirstN(s, n) == IF Len(s) <= n THEN s ELSE SubSeq(s, 1, n)

\* record_success that cuts the window to its oldest latencies
record_success_sized_oldest(rl, response_time, limit, keep) ==
    LET appended == Append(rl.response_times, response_time)
        counted == [rl EXCEPT
                      !.success_count = @ + 1,
                      !.consecutive_successes = @ + 1,
                      !.consecutive_errors = 0,
                      !.response_times =
                          IF Len(appended) > limit THEN FirstN(appended, keep)
                          ELSE appended]
    IN  adapt_on_success(counted)

\* record_success with the limit of the window and the number of latencies
\* a cut keeps as parameters
record_success_sized(rl, response_time, limit, keep) ==
    LET appended == Append(rl.response_times, response_time)
        counted == [rl EXCEPT
                      !.success_count = @ + 1,
                      !.consecutive_successes = @ + 1,
                      !.consecutive_errors = 0,
                      !.response_times =
                          IF Len(appended) > limit THEN LastN(appended, keep)
                          ELSE appended]
    IN  adapt_on_success(counted)

record_success(rl, response_time) ==
    record_success_sized(rl, response_time, WindowLimit, WindowKeep)

\* record_error that leaves the success streak as it is
record_error_keeps_streak(rl, error_type) ==
    adapt_on_error(
        [rl EXCEPT
            !.error_count = @ + 1,
            !.consecutive_errors = @ + 1],
        error_type)

record_error(rl, error_type) ==
    adapt_on_error(
        [rl EXCEPT
            !.error_count = @ + 1,
            !.consecutive_errors = @ + 1,
            !.consecutive_successes = 0],
        error_type)

\* a semaphore that is locked only while somebody waits
Locked_by_waiters_only(sem) == sem.waiters # << >>

\* Semaphore.locked()
Locked(sem) == sem.value = 0 \/ sem.waiters # << >>

\* release(): self.semaphore.release() on the semaphore object current at the
\* time of the call; with a waiter the permit is handed to the first one.
release(rl) ==
    IF rl.semaphore.waiters # << >>
    THEN [rl EXCEPT !.semaphore.waiters = Tail(@)]
    ELSE [rl EXCEPT !.semaphore.value = @ + 1]

\* the task release() wakes, 0 for none
Woken(rl) == IF rl.semaphore.waiters # << >> THEN Head(rl.semaphore.waiters) ELSE 0

\* pc of a task that has just been given a permit inside acquire():
\* if self.current_delay > 0: await asyncio.sleep(self.current_delay)
AfterPermit(rl) == IF rl.current_delay > 0 THEN "delay" ELSE "holding"

\* a task blocked in Semaphore.acquire() of a semaphore object that
\* _update_semaphore has since replaced
Orphaned(t) ==
    /\ pc[t] = "sem_wait"
    /\ \A i \in 1..Len(rate_limiter.semaphore.waiters) :
          rate_limiter.semaphore.waiters[i] # t

Held == {t \in Tasks : pc[t] \in {"delay", "holding", "backoff_in", "exit_ctx"}}

----------------------------------------------------------------------------
(* username_checker.py: UltraUsernameChecker, state after __init__ *)

None == "None"

\* code is None (the body has no "code", or the result carries none)
NoCode == -1

\* a call that has given nothing back yet
NoResult == [username |-> "", status |-> "none", code |-> NoCode, error_message |-> None]

NoCounts == [valid |-> 0, taken |-> 0, censored |-> 0, errors |-> 0]

CheckerIdle ==
    /\ attempt = [t \in Tasks |-> 0]
    /\ tries = [t \in Tasks |-> 0]
    /\ all_transient = [t \in Tasks |-> TRUE]
    /\ released = [t \in Tasks |-> 0]
    /\ pending = [t \in Tasks |-> None]
    /\ result = [t \in Tasks |-> NoResult]
    /\ result_counts = NoCounts
    /\ fallback = [pc |-> "idle", batch_results |-> << >>]
    /\ sleeps = [t \in Tasks |-> << >>]

\* the identifiers of the runs: abc12, take1, abc12, ...
UsernameAt(i) == IF i % 2 = 1 THEN "abc12" ELSE "take1"

----------------------------------------------------------------------------
(* advanced_optimizations.py: AdvancedRequestOptimizer, state after         *)
(* __init__; process_usernames not started                                  *)

\* response_cache is the sequence of its entries in dict order
AdvancedRequestOptimizer ==
    [ session_pool   |-> 0,
      session_index  |-> 0,
      response_cache |-> << >>,
      request_times  |-> << >>,
      success_streak |-> 0,
      error_streak   |-> 0 ]

\* get_cached_response: return None
NoResponse == [kind |-> "none", code |-> NoCode]

\* no method has been called directly yet
NoCall == [op |-> "none", arg |-> "", response |-> NoResponse, raised |-> FALSE,
           size_before |-> 0, returned |-> 0]

\* create_session_pool has not been called yet
NoPool == [pool_size |-> 0, sessions |-> << >>]

\* __init__: self.session = None, self.optimizer.session_pool = []
NoSessions == [main |-> "none", pool |-> << >>]

\* the checker is constructed, `async with` has not begun
NotEntered == [pc |-> "new", outcome |-> "none"]

NoBatch == [usernames |-> << >>, semaphore |-> NewSemaphore(0), tasks |-> << >>]

BatchIdle ==
    /\ optimizer = AdvancedRequestOptimizer
    /\ now = 0
    /\ proc = [pc |-> "idle", i |-> 0, j |-> 0, all_results |-> << >>, results |-> << >>]
    /\ batch = NoBatch
    /\ monitor = [running |-> FALSE, total_processed |-> 0, counts |-> NoCounts,
                  current_concurrent |-> 0, last_processed_count |-> 0,
                  loop |-> "off", fault |-> "none"]
    /\ last_call = NoCall
    /\ served = NoPool
    /\ client_sessions = NoSessions
    /\ ctx = NotEntered

----------------------------------------------------------------------------
(* Specification Spec: the rate limiter under arbitrary calls.  Tasks call   *)
(* acquire() and release(); record_success and record_error are called with *)
(* any latency and any error category.                                      *)

\* The limiter after n record_success(FastLatency) calls on a new instance
\* (no resize happens before the tenth success in a row).
RECURSIVE Warmed(_, _)
Warmed(rl, n) == IF n = 0 THEN rl ELSE Warmed(record_success(rl, FastLatency), n - 1)

Init ==
    /\ config \in LimiterConfigs
    /\ \E n \in {0, WarmUp} : rate_limiter = Warmed(AdaptiveRateLimiter(config), n)
    /\ pc = [t \in Tasks |-> "idle"]
    /\ calls = 0
    /\ CheckerIdle
    /\ usernames = << >>
    /\ BatchIdle

\* acquire(): await self.semaphore.acquire()
Acquire(t) ==
    /\ pc[t] = "idle"
    /\ IF Locked(rate_limiter.semaphore)
       THEN /\ rate_limiter' = [rate_limiter EXCEPT !.semaphore.waiters = Append(@, t)]
            /\ pc' = [pc EXCEPT ![t] = "sem_wait"]
       ELSE /\ rate_limiter' = [rate_limiter EXCEPT !.semaphore.value = @ - 1]
            /\ pc' = [pc EXCEPT ![t] = AfterPermit(rate_limiter)]
    /\ UNCHANGED <<lifeVars, callVars, batchVars, config, calls, checkerVars>>

\* acquire(): await asyncio.sleep(self.current_delay) is over
DelayDone(t) ==
    /\ pc[t] = "delay"
    /\ pc' = [pc EXCEPT ![t] = "holding"]
    /\ UNCHANGED <<lifeVars, callVars, batchVars, config, rate_limiter, calls, checkerVars>>

Release(t) ==
    /\ pc[t] = "holding"
    /\ rate_limiter' = release(rate_limiter)
    /\ pc' = [u \in Tasks |->
                IF u = t THEN "idle"
                ELSE IF u = Woken(rate_limiter) THEN AfterPermit(rate_limiter)
                ELSE pc[u]]
    /\ UNCHANGED <<lifeVars, callVars, batchVars, config, calls, checkerVars>>

RecordSuccess(response_time) ==
    /\ calls < MaxCalls
    /\ calls' = calls + 1
    /\ rate_limiter' = record_success(rate_limiter, response_time)
    /\ UNCHANGED <<lifeVars, callVars, batchVars, config, pc, checkerVars>>

RecordError(error_type) ==
    /\ calls < MaxCalls
    /\ calls' = calls + 1
    /\ rate_limiter' = record_error(rate_limiter, error_type)
    /\ UNCHANGED <<lifeVars, callVars, batchVars, config, pc, checkerVars>>

Next ==
    \/ \E t \in Tasks : Acquire(t)
    \/ \E t \in Tasks : DelayDone(t)
    \/ \E t \in Tasks : Release(t)
    \/ \E response_time \in Latencies : RecordSuccess(response_time)
    \/ \E error_type \in ErrorTypes : RecordError(error_type)

Spec == Init /\ [][Next]_vars

----------------------------------------------------------------------------
(* Claims about the rate limiter, checked under Spec *)

\* the step is a record_success or record_error call
IsRecordCall == calls' = calls + 1

\* permits acquire() can grant without waiting
Grantable(rl) == IF rl.semaphore.waiters = << >> THEN rl.semaphore.value ELSE 0

\* C4: after any sequence of record_success and record_error calls
\* current_concurrent lies within [min_concurrent_requests,
\* max_concurrent_requests].
C4_ConcurrencyWithinBounds ==
    /\ rate_limiter.current_concurrent >= config.min_concurrent_requests
    /\ rate_limiter.current_concurrent <= config.max_concurrent_requests

\* errors have cut the concurrency down to the floor, after successes
C4_Witness ==
    /\ rate_limiter.current_concurrent = config.min_concurrent_requests
    /\ rate_limiter.current_concurrent < config.initial_concurrent_requests
    /\ rate_limiter.success_count > WarmUp
    /\ rate_limiter.error_count > 0

\* C5: after any sequence of record_success and record_error calls
\* current_delay lies within [base_delay, max_delay].
C5_DelayWithinBounds ==
    /\ rate_limiter.current_delay >= config.base_delay
    /\ rate_limiter.current_delay <= config.max_delay

\* errors have driven the delay up to the cap, after successes on a streak
\* of ten or more had met the floor
C5_Witness ==
    /\ rate_limiter.current_delay = config.max_delay
    /\ rate_limiter.current_delay > config.base_delay
    /\ rate_limiter.error_count > 1
    /\ rate_limiter.success_count >= 10

\* C8: when record_error lowers current_concurrent while permits are held,
\* no task is cancelled and acquire() can grant no permit as long as the
\* permits held are at least the new current_concurrent.
C8_ShrinkDrains ==
    [][ ( /\ IsRecordCall
          /\ rate_limiter'.current_concurrent < rate_limiter.current_concurrent
          /\ Held # {} )
        => /\ pc' = pc
           /\ (Cardinality(Held) >= rate_limiter'.current_concurrent
                  => Grantable(rate_limiter') = 0) ]_vars

\* C9: when record_success raises current_concurrent from L to L2 > L, the
\* permits acquire() can grant grow by exactly L2 - L.
C9_GrowthAddsPermits ==
    [][ ( /\ IsRecordCall
          /\ rate_limiter'.current_concurrent > rate_limiter.current_concurrent )
        => Grantable(rate_limiter') = Grantable(rate_limiter)
              + (rate_limiter'.current_concurrent - rate_limiter.current_concurrent) ]_vars

----------------------------------------------------------------------------
(* username_checker.py: _check_single_username and                          *)
(* _check_username_batch_fallback                                           *)
(*                                                                          *)
(* Positions of a task in _check_single_username:                           *)
(*   start       top of the retry loop, about to call acquire()             *)
(*   sem_wait    blocked in Semaphore.acquire()                             *)
(*   delay       inside acquire(), sleeping current_delay, permit held      *)
(*   holding     session.get(url) in flight, permit held                    *)
(*   backoff_in  asyncio.sleep(retry_delay * 2**attempt) inside the         *)
(*               try/finally block (json, 429 and http branches)            *)
(*   exit_ctx    leaving `async with` and the try block; finally is next    *)
(*   backoff_out asyncio.sleep(...) in an except handler, after finally     *)
(*   returned    a CheckResult was returned                                 *)
(*   raised      an exception left the function                             *)

\* data.get("code"): the codes the endpoint defines, one it does not, none
Codes == {0, 1, 2, 3, NoCode}

\* how one network attempt ends
Outcomes ==
    [kind : {"ok"}, code : Codes]
      \cup [kind : {"array", "bad_json", "429", "http", "timeout", "client_error"},
            code : {NoCode}]

Transient == {"429", "http", "timeout", "client_error"}

CheckResult(username, status, code, error_message) ==
    [username |-> username, status |-> status, code |-> code,
     error_message |-> error_message]

\* if code == 0 ... elif code == 1 ... elif code == 2 ... else 'error'
StatusOfCode(code) ==
    CASE code = 0 -> "valid"
      [] code = 1 -> "taken"
      [] code = 2 -> "censored"
      [] OTHER -> "error"

Exhausted(t) == CheckResult(usernames[t], "error", NoCode, "Max retries exhausted")

\* the AttributeError that leaves the call, as gather hands it back
Escaped(t) == [username |-> usernames[t], status |-> "exception", code |-> NoCode,
               error_message |-> "AttributeError"]

\* range(self.config.max_retries + 1), one iteration too many
RetryRange_one_more == 0..(config.max_retries + 1)

\* for attempt in range(self.config.max_retries + 1)
RetryRange == 0..config.max_retries

\* if attempt < self.config.max_retries
MayRetry(k) == k < config.max_retries

\* a backoff that does not grow with the attempt
BackoffDelay_constant(k) == config.retry_delay

\* self.config.retry_delay * (2 ** attempt)
BackoffDelay(k) == config.retry_delay * Pow(2, k)

CheckerConfigs ==
    { MakeConfig(1, 1, 2, 100, 200, 1, 2, 4),
      MakeConfig(1, 2, 3, 100, 200, 1, 2, 4) }

CheckerInit ==
    /\ config \in CheckerConfigs
    /\ rate_limiter = AdaptiveRateLimiter(config)
    /\ pc = [t \in Tasks |-> "idle"]
    /\ calls = 0
    /\ CheckerIdle
    /\ usernames = [t \in Tasks |-> UsernameAt(t)]
    /\ BatchIdle

\* _check_username_batch_fallback: one task per username, then gather
StartFallback ==
    /\ fallback.pc = "idle"
    /\ fallback' = [fallback EXCEPT !.pc = "gather"]
    /\ pc' = [t \in Tasks |-> "start"]
    /\ UNCHANGED <<lifeVars, callVars, batchVars, config, rate_limiter, calls, attempt, tries, all_transient, released,
                   pending, result, result_counts, usernames, sleeps>>

\* pc of every task after task t moved to `to` and release() woke `woken`
Moved(t, to, woken, rl) ==
    [u \in Tasks |->
        IF u = t THEN to
        ELSE IF u = woken THEN AfterPermit(rl)
        ELSE pc[u]]

\* the loop moves on to iteration k, or is over
NextIteration(t, k) ==
    IF k \in RetryRange
    THEN [pc |-> "start", result |-> result[t]]
    ELSE [pc |-> "returned", result |-> Exhausted(t)]

\* await self.rate_limiter.acquire(), up to the semaphore
CheckAcquire(t) ==
    /\ pc[t] = "start"
    /\ released' = [released EXCEPT ![t] = 0]
    /\ IF Locked(rate_limiter.semaphore)
       THEN /\ rate_limiter' = [rate_limiter EXCEPT !.semaphore.waiters = Append(@, t)]
            /\ pc' = [pc EXCEPT ![t] = "sem_wait"]
       ELSE /\ rate_limiter' = [rate_limiter EXCEPT !.semaphore.value = @ - 1]
            /\ pc' = [pc EXCEPT ![t] = AfterPermit(rate_limiter)]
    /\ UNCHANGED <<lifeVars, callVars, batchVars, config, calls, attempt, tries, all_transient, pending, result,
                   result_counts, fallback, usernames, sleeps>>

\* the sleep of acquire() is over: session.get(url) is issued
CheckDelayDone(t) ==
    /\ pc[t] = "delay"
    /\ fallback.pc = "gather"
    /\ pc' = [pc EXCEPT ![t] = "holding"]
    /\ tries' = [tries EXCEPT ![t] = @ + 1]
    /\ UNCHANGED <<lifeVars, callVars, batchVars, config, rate_limiter, calls, attempt, all_transient, released, pending,
                   result, result_counts, fallback, usernames, sleeps>>

\* 200 with a JSON object: record_success, classify, return
RespondOk(t, o, response_time) ==
    /\ o.kind = "ok"
    /\ rate_limiter' = record_success(rate_limiter, response_time)
    /\ result' = [result EXCEPT ![t] =
                    CheckResult(usernames[t], StatusOfCode(o.code), o.code, None)]
    /\ pending' = [pending EXCEPT ![t] = "return"]
    /\ pc' = [pc EXCEPT ![t] = "exit_ctx"]
    /\ UNCHANGED <<released, sleeps>>

\* 200 with a JSON value that is no object: data.get raises AttributeError,
\* which no except clause of the function names
RespondArray(t, o) ==
    /\ o.kind = "array"
    /\ pending' = [pending EXCEPT ![t] = "raise"]
    /\ pc' = [pc EXCEPT ![t] = "exit_ctx"]
    /\ UNCHANGED <<rate_limiter, result, released, sleeps>>

\* 200 with malformed JSON, 429, any other status: record_error inside the
\* try block, then sleep and continue, or leave the block
RespondStatus(t, o) ==
    /\ o.kind \in {"bad_json", "429", "http"}
    /\ rate_limiter' = record_error(rate_limiter,
          CASE o.kind = "bad_json" -> "json_error"
            [] o.kind = "429" -> "429_rate_limit"
            [] OTHER -> "http_500")
    /\ IF MayRetry(attempt[t])
       THEN /\ pc' = [pc EXCEPT ![t] = "backoff_in"]
            /\ pending' = [pending EXCEPT ![t] = "next"]
            /\ sleeps' = [sleeps EXCEPT ![t] = Append(@, BackoffDelay(attempt[t]))]
            /\ UNCHANGED result
       ELSE /\ pc' = [pc EXCEPT ![t] = "exit_ctx"]
            /\ UNCHANGED sleeps
            /\ IF o.kind = "bad_json"
               THEN /\ pending' = [pending EXCEPT ![t] = "return"]
                    /\ result' = [result EXCEPT ![t] =
                          CheckResult(usernames[t], "error", NoCode, "JSON parsing error")]
               ELSE /\ pending' = [pending EXCEPT ![t] = "next"]
                    /\ UNCHANGED result
    /\ UNCHANGED released

\* asyncio.TimeoutError or aiohttp.ClientError: finally releases the permit,
\* then the except handler calls record_error and sleeps or ends the loop
RespondException(t, o) ==
    /\ o.kind \in {"timeout", "client_error"}
    /\ LET freed == release(rate_limiter)
           nxt == IF MayRetry(attempt[t])
                  THEN [pc |-> "backoff_out", result |-> result[t]]
                  ELSE NextIteration(t, attempt[t] + 1)
       IN  /\ rate_limiter' = record_error(freed, o.kind)
           /\ released' = [released EXCEPT ![t] = @ + 1]
           /\ pc' = Moved(t, nxt.pc, Woken(rate_limiter), freed)
           /\ result' = [result EXCEPT ![t] = nxt.result]
           /\ sleeps' = IF MayRetry(attempt[t])
                        THEN [sleeps EXCEPT ![t] = Append(@, BackoffDelay(attempt[t]))]
                        ELSE sleeps
    /\ UNCHANGED pending

Respond(t, o) ==
    /\ pc[t] = "holding"
    /\ fallback.pc = "gather"
    /\ all_transient' = [all_transient EXCEPT ![t] = @ /\ o.kind \in Transient]
    /\ \/ RespondOk(t, o, FastLatency)
       \/ RespondArray(t, o)
       \/ RespondStatus(t, o)
       \/ RespondException(t, o)
    /\ UNCHANGED <<lifeVars, callVars, batchVars, config, calls, attempt, tries, result_counts, fallback, usernames>>

\* the backoff sleep inside the try block is over: continue
BackoffInDone(t) ==
    /\ pc[t] = "backoff_in"
    /\ pc' = [pc EXCEPT ![t] = "exit_ctx"]
    /\ UNCHANGED <<lifeVars, callVars, batchVars, config, rate_limiter, calls, checkerVars>>

\* finally: self.rate_limiter.release(); then return, raise, or next iteration
ExitCtx(t) ==
    /\ pc[t] = "exit_ctx"
    /\ rate_limiter' = release(rate_limiter)
    /\ released' = [released EXCEPT ![t] = @ + 1]
    /\ LET nxt == CASE pending[t] = "return" -> [pc |-> "returned", result |-> result[t]]
                    [] pending[t] = "raise" -> [pc |-> "raised", result |-> Escaped(t)]
                    [] OTHER -> NextIteration(t, attempt[t] + 1)
       IN  /\ pc' = Moved(t, nxt.pc, Woken(rate_limiter), rate_limiter)
           /\ result' = [result EXCEPT ![t] = nxt.result]
           /\ attempt' = [attempt EXCEPT ![t] = IF nxt.pc = "start" THEN @ + 1 ELSE @]
    /\ pending' = [pending EXCEPT ![t] = None]
    /\ UNCHANGED <<lifeVars, callVars, batchVars, config, calls, tries, all_transient, result_counts, fallback,
                   usernames, sleeps>>

\* the backoff sleep of an except handler is over: continue
BackoffOutDone(t) ==
    /\ pc[t] = "backoff_out"
    /\ LET nxt == NextIteration(t, attempt[t] + 1)
       IN  /\ pc' = [pc EXCEPT ![t] = nxt.pc]
           /\ result' = [result EXCEPT ![t] = nxt.result]
           /\ attempt' = [attempt EXCEPT ![t] = IF nxt.pc = "start" THEN @ + 1 ELSE @]
    /\ UNCHANGED <<lifeVars, callVars, batchVars, config, rate_limiter, calls, tries, all_transient, released,
                   pending, result_counts, fallback, usernames, sleeps>>

\* the loop over gather's results from index i on: an exception becomes an
\* error CheckResult counted under 'errors'; a CheckResult is appended and
\* counted under its status, and result_counts has no key 'error'
RECURSIVE GatherFrom(_, _, _)
GatherFrom(i, counts, batch_results) ==
    IF i > NumTasks
    THEN [pc |-> "returned", counts |-> counts, batch_results |-> batch_results]
    ELSE IF pc[i] = "raised"
    THEN GatherFrom(i + 1, [counts EXCEPT !.errors = @ + 1],
             Append(batch_results,
                    CheckResult(usernames[i], "error", NoCode, result[i].error_message)))
    ELSE IF result[i].status \in DOMAIN counts
    THEN GatherFrom(i + 1, [counts EXCEPT ![result[i].status] = @ + 1],
             Append(batch_results, result[i]))
    ELSE [pc |-> "raised", counts |-> counts,
          batch_results |-> Append(batch_results, result[i])]

\* asyncio.gather(*tasks, return_exceptions=True) is complete
Gather ==
    /\ fallback.pc = "gather"
    /\ \A t \in Tasks : pc[t] \in {"returned", "raised"}
    /\ LET g == GatherFrom(1, result_counts, << >>)
       IN  /\ fallback' = [pc |-> g.pc, batch_results |-> g.batch_results]
           /\ result_counts' = g.counts
    /\ UNCHANGED <<lifeVars, callVars, batchVars, config, rate_limiter, pc, calls, attempt, tries, all_transient,
                   released, pending, result, usernames, sleeps>>

TaskStep(t) ==
    \/ CheckAcquire(t)
    \/ CheckDelayDone(t)
    \/ \E o \in Outcomes : Respond(t, o)
    \/ BackoffInDone(t)
    \/ ExitCtx(t)
    \/ BackoffOutDone(t)

CheckerNext ==
    \/ StartFallback
    \/ \E t \in Tasks : TaskStep(t)
    \/ Gather

CheckerSpec == CheckerInit /\ [][CheckerNext]_vars

\* Every task that can take a step eventually takes one (the event loop runs
\* every ready task, every sleep ends, every network call completes).
FairCheckerSpec ==
    /\ CheckerSpec
    /\ \A t \in Tasks : WF_vars(TaskStep(t))
    /\ WF_vars(StartFallback)
    /\ WF_vars(Gather)

----------------------------------------------------------------------------
(* Claims about _check_single_username, checked under CheckerSpec and       *)
(* FairCheckerSpec                                                          *)

Ended(t) == pc[t] \in {"returned", "raised"}

\* C2: _check_single_username never lets an exception escape: whatever the
\* endpoint does on each attempt, the call ends by returning a CheckResult.
C2_NeverRaises ==
    \A t \in Tasks : pc[t] # "raised"

\* C6: a call whose every attempt failed transiently has made exactly
\* max_retries + 1 attempts when it returns, and returns an error result; no
\* call ever makes more than max_retries + 1 attempts, and a call that has
\* ended makes no further attempt.
C6_RetryBound ==
    /\ [](\A t \in Tasks :
            /\ tries[t] <= config.max_retries + 1
            /\ (pc[t] = "returned" /\ all_transient[t])
                 => /\ tries[t] = config.max_retries + 1
                    /\ result[t] = Exhausted(t))
    /\ [][\A t \in Tasks :
            Ended(t) => /\ pc'[t] = pc[t]
                        /\ tries'[t] = tries[t]
                        /\ result'[t] = result[t]]_vars

\* a call has returned after max_retries + 1 attempts that all failed
\* transiently, the last one past the first
C6_Witness ==
    \E t \in Tasks :
        /\ pc[t] = "returned"
        /\ all_transient[t]
        /\ tries[t] = config.max_retries + 1
        /\ tries[t] > 1
        /\ result[t].error_message = "Max retries exhausted"

\* C7: under fairness every _check_single_username call started by
\* _check_username_batch_fallback eventually ends, none stays blocked in
\* acquire() forever.  (The claim says: ends by returning a CheckResult; a
\* call that ends by raising counts as ended here.)
C7_EveryCallEnds ==
    <>(\A t \in Tasks : Ended(t))

\* C10: the permit of an attempt is released exactly once, before the
\* backoff sleep of that attempt starts and before the function returns.
C10_ReleasedBeforeSleep ==
    \A t \in Tasks :
        /\ released[t] <= 1
        /\ pc[t] \in {"backoff_in", "backoff_out", "returned", "raised"}
              => released[t] = 1

----------------------------------------------------------------------------
(* advanced_optimizations.py: AdvancedRequestOptimizer                      *)

PoolSize == 5
cache_ttl == 300
CacheCapacity == 10000
SweepSize == 2000

\* get_next_session raised RuntimeError and returned no session
NoSession == -1

\* get_next_session that moves session_index on before it reads the session
get_next_session_skips(opt) ==
    IF opt.session_pool = 0
    THEN [raised |-> TRUE, session |-> NoSession, optimizer |-> opt]
    ELSE IF opt.session_index >= opt.session_pool
    THEN [raised |-> TRUE, session |-> NoSession, optimizer |-> opt]
    ELSE [raised |-> FALSE,
          session |-> (opt.session_index + 1) % opt.session_pool,
          optimizer |-> [opt EXCEPT !.session_index = (@ + 1) % opt.session_pool]]

\* get_next_session: the sessions of the pool are numbered by their index in
\* session_pool; session_pool[session_index] raises IndexError when the index
\* is not one of the pool
get_next_session(opt) ==
    IF opt.session_pool = 0
    THEN [raised |-> TRUE, session |-> NoSession, optimizer |-> opt]
    ELSE IF opt.session_index >= opt.session_pool
    THEN [raised |-> TRUE, session |-> NoSession, optimizer |-> opt]
    ELSE [raised |-> FALSE,
          session |-> opt.session_index,
          optimizer |-> [opt EXCEPT !.session_index = (@ + 1) % opt.session_pool]]

\* get_cache_key: the md5 hex digest of the username
get_cache_key(username) == <<"md5", username>>

\* str(e) of the exception make_optimized_request raises: a
\* ClientResponseError starts with its status, a TimeoutError is empty
ErrorText(kind) ==
    CASE kind = "429" -> "429"
      [] kind = "http" -> "500"
      [] kind = "timeout" -> ""
      [] kind = "client_error" -> "ClientError"
      [] kind = "bad_json" -> "JSONDecodeError"
      [] OTHER -> "Session pool not initialized"

\* {'error': str(e), 'username': username}
ErrorDict(kind) == [kind |-> "error_dict", code |-> NoCode, error |-> ErrorText(kind)]

\* the body of a 200 response, as parsed by response.json()
BodyOf(o) == [kind |-> o.kind, code |-> o.code]

\* truth value of a parsed body: an empty object is false
Truthy(response) == response.kind \in {"ok", "array"}

\* index of the entry with this key in the cache, 0 when there is none
RECURSIVE CacheIndexFrom(_, _, _)
CacheIndexFrom(cache, key, i) ==
    IF i > Len(cache) THEN 0
    ELSE IF cache[i].key = key THEN i
    ELSE CacheIndexFrom(cache, key, i + 1)

CacheIndex(cache, key) == CacheIndexFrom(cache, key, 1)

\* the entries of cache whose index is in keep, in order
RECURSIVE Kept(_, _, _)
Kept(cache, keep, i) ==
    IF i > Len(cache) THEN << >>
    ELSE IF i \in keep THEN <<cache[i]>> \o Kept(cache, keep, i + 1)
    ELSE Kept(cache, keep, i + 1)

Without(cache, i) == Kept(cache, (1..Len(cache)) \ {i}, 1)

\* get_cached_response with `<=` for `<` in the test of the age
get_cached_response_inclusive(opt, username, t) ==
    LET i == CacheIndex(opt.response_cache, get_cache_key(username))
    IN  IF i = 0 THEN [response |-> NoResponse, optimizer |-> opt]
        ELSE IF t - opt.response_cache[i].timestamp <= cache_ttl
        THEN [response |-> opt.response_cache[i].response, optimizer |-> opt]
        ELSE [response |-> NoResponse,
              optimizer |-> [opt EXCEPT !.response_cache = Without(@, i)]]

\* get_cached_response at time t: the response and the cache afterwards
get_cached_response(opt, username, t) ==
    LET i == CacheIndex(opt.response_cache, get_cache_key(username))
    IN  IF i = 0 THEN [response |-> NoResponse, optimizer |-> opt]
        ELSE IF t - opt.response_cache[i].timestamp < cache_ttl
        THEN [response |-> opt.response_cache[i].response, optimizer |-> opt]
        ELSE [response |-> NoResponse,
              optimizer |-> [opt EXCEPT !.response_cache = Without(@, i)]]

\* the sweep with `> cap + 1` for `> cap` in the test of the size
Sweep_late(cache, cap, cut) ==
    IF Len(cache) > cap + 1
    THEN LET before(i) == {j \in 1..Len(cache) :
                             \/ cache[j].timestamp < cache[i].timestamp
                             \/ cache[j].timestamp = cache[i].timestamp /\ j < i}
         IN  Kept(cache, {i \in 1..Len(cache) : Cardinality(before(i)) >= cut}, 1)
    ELSE cache

\* the sweep that deletes the first cut entries in dict order, unsorted
Sweep_dict_order(cache, cap, cut) ==
    IF Len(cache) > cap
    THEN Kept(cache, {i \in 1..Len(cache) : i > cut}, 1)
    ELSE cache

\* sorted(items, key=timestamp)[:cut] deleted once the cache holds more than
\* cap entries; sorted() is stable, so ties keep dict order
Sweep(cache, cap, cut) ==
    IF Len(cache) > cap
    THEN LET before(i) == {j \in 1..Len(cache) :
                             \/ cache[j].timestamp < cache[i].timestamp
                             \/ cache[j].timestamp = cache[i].timestamp /\ j < i}
         IN  Kept(cache, {i \in 1..Len(cache) : Cardinality(before(i)) >= cut}, 1)
    ELSE cache

\* cache_response with the capacity and the size of the sweep as parameters
cache_response_sized(opt, username, response, t, cap, cut) ==
    LET key == get_cache_key(username)
        entry == [key |-> key, response |-> response, timestamp |-> t]
        i == CacheIndex(opt.response_cache, key)
        stored == IF i = 0 THEN Append(opt.response_cache, entry)
                  ELSE [opt.response_cache EXCEPT ![i] = entry]
    IN  [opt EXCEPT !.response_cache = Sweep(stored, cap, cut)]

cache_response(opt, username, response, t) ==
    cache_response_sized(opt, username, response, t, CacheCapacity, SweepSize)

\* get_adaptive_delay that takes the fast path from a streak of 20 on
get_adaptive_delay_from_20(opt) ==
    LET base_delay == config.base_delay
        fast == /\ opt.success_streak >= 20
                /\ opt.request_times # << >>
                /\ SumSeq(LastN(opt.request_times, 20))
                      < 200 * Min(20, Len(opt.request_times))
        k == Min(opt.error_streak, 10)
    IN  IF fast THEN Max(100, base_delay \div 2)
        ELSE IF opt.error_streak > 5
        THEN Min(config.max_delay, (base_delay * Pow(3, k)) \div Pow(2, k))
        ELSE base_delay

\* get_adaptive_delay, in microseconds
get_adaptive_delay(opt) ==
    LET base_delay == config.base_delay
        fast == /\ opt.success_streak > 20
                /\ opt.request_times # << >>
                /\ SumSeq(LastN(opt.request_times, 20))
                      < 200 * Min(20, Len(opt.request_times))
        k == Min(opt.error_streak, 10)
    IN  IF fast THEN Max(100, base_delay \div 2)
        ELSE IF opt.error_streak > 5
        THEN Min(config.max_delay, (base_delay * Pow(3, k)) \div Pow(2, k))
        ELSE base_delay

\* the bookkeeping of make_optimized_request after a 200 response
request_succeeded(opt, username, response, response_time, t) ==
    LET cached == cache_response(opt, username, response, t)
        times == Append(opt.request_times, response_time)
    IN  [cached EXCEPT
            !.request_times = IF Len(times) > 1000 THEN LastN(times, 500) ELSE times,
            !.success_streak = @ + 1,
            !.error_streak = 0]

\* the bookkeeping of make_optimized_request after a failure: a non-200
\* status counts in the else branch and again in the except clause that
\* catches the ClientResponseError raised there
request_failed(opt, kind) ==
    [opt EXCEPT
        !.error_streak = IF kind \in {"429", "http"} THEN @ + 2 ELSE @ + 1,
        !.success_streak = 0]

----------------------------------------------------------------------------
(* username_checker.py: process_usernames and check_username_batch on a     *)
(* checker entered through its context manager; advanced_optimizations.py:  *)
(* UltraFastBatchProcessor.process_batch_ultra_fast                         *)
(*                                                                          *)
(* Positions of a task of process_batch_ultra_fast (process_single):        *)
(*   start     created, not yet at `async with semaphore`                   *)
(*   sem_wait  blocked on the semaphore of the batch                        *)
(*   sleep     past the semaphore, sleeping the adaptive delay              *)
(*   call      past the semaphore, no delay to sleep                        *)
(*   request   session.get(url) in flight                                   *)
(*   done      process_single has returned its raw result                   *)

MaxInput == 3
MaxTicks == 2
TickSeconds == 200

BatchOutcomes == Outcomes \cup {[kind |-> "empty_object", code |-> NoCode]}

BatchConfigs ==
    { MakeConfig(1, 1, 2, 100, 200, 1, 2, 2),
      MakeConfig(1, 2, 3, 100, 200, 1, 2, 3),
      MakeConfig(1, 2, 3, 100, 200, 1, 1, 2),
      MakeConfig(1, 2, 3, 100, 200, 1, 3, 3) }

BatchInit ==
    /\ config \in BatchConfigs
    /\ rate_limiter = AdaptiveRateLimiter(config)
    /\ pc = [t \in Tasks |-> "idle"]
    /\ calls = 0
    /\ CheckerIdle
    /\ \E n \in 0..MaxInput : usernames = [i \in 1..n |-> UsernameAt(i)]
    /\ BatchIdle

\* __aenter__: the session pool is created with pool_size=5 and the batch
\* processor is set
Enter ==
    /\ proc.pc = "idle"
    /\ proc' = [proc EXCEPT !.pc = "entered"]
    /\ optimizer' = [optimizer EXCEPT !.session_pool = @ + PoolSize]
    /\ client_sessions' = [main |-> "open", pool |-> [i \in 1..PoolSize |-> "open"]]
    /\ ctx' = [ctx EXCEPT !.pc = "entered"]
    /\ UNCHANGED <<callVars, config, rate_limiter, pc, calls, checkerVars, now, batch, monitor>>

\* process_usernames up to the first batch: the monitor is started
ProcessStart ==
    /\ proc.pc = "entered"
    /\ proc' = [proc EXCEPT !.pc = "loop", !.i = 0, !.j = 0, !.all_results = << >>]
    /\ monitor' = [monitor EXCEPT !.running = TRUE, !.loop = "ready"]
    /\ UNCHANGED <<lifeVars, callVars, config, rate_limiter, pc, calls, checkerVars, optimizer, now, batch>>

\* seq[a:b] of Python, 0-based
Slice(seq, a, b) == SubSeq(seq, a + 1, Min(b, Len(seq)))

\* chunk = usernames[i:i + chunk_size]
Chunk(i) == Slice(usernames, i, i + config.chunk_size)

\* the loop variables after the batch at (i, j)
Advance(i, j) ==
    IF j + config.batch_size < Len(Chunk(i))
    THEN [i |-> i, j |-> j + config.batch_size]
    ELSE [i |-> i + config.chunk_size, j |-> 0]

NewTask == [pc |-> "start", raw |-> NoResponse]

\* pc of a task of the batch that has just passed the semaphore
AfterBatchPermit(opt) == IF get_adaptive_delay(opt) > 0 THEN "sleep" ELSE "call"

\* the next batch starts: update_concurrent, then process_batch_ultra_fast
\* makes its semaphore and one process_single per username
BatchStart ==
    /\ proc.pc = "loop"
    /\ proc.i < Len(usernames)
    /\ LET names == Slice(Chunk(proc.i), proc.j, proc.j + config.batch_size)
       IN  batch' = [usernames |-> names,
                     semaphore |-> NewSemaphore(rate_limiter.current_concurrent),
                     tasks |-> [k \in 1..Len(names) |-> NewTask]]
    /\ monitor' = [monitor EXCEPT !.current_concurrent = rate_limiter.current_concurrent]
    /\ proc' = [proc EXCEPT !.pc = "batch"]
    /\ UNCHANGED <<lifeVars, callVars, config, rate_limiter, pc, calls, checkerVars, optimizer, now>>

\* process_single: async with semaphore
BatchAcquire(k) ==
    /\ proc.pc = "batch"
    /\ k \in 1..Len(batch.tasks)
    /\ batch.tasks[k].pc = "start"
    /\ IF Locked(batch.semaphore)
       THEN batch' = [batch EXCEPT !.semaphore.waiters = Append(@, k),
                                   !.tasks[k].pc = "sem_wait"]
       ELSE batch' = [batch EXCEPT !.semaphore.value = @ - 1,
                                   !.tasks[k].pc = AfterBatchPermit(optimizer)]
    /\ UNCHANGED <<lifeVars, callVars, config, rate_limiter, pc, calls, checkerVars, optimizer, now, proc,
                   monitor>>

\* Finished that collects the raw results in the order of completion
Finished_in_completion_order(b, k, raw, opt) ==
    LET woken == Woken(b)
        freed == release(b)
        slot == CHOOSE m \in 1..Len(b.tasks) :
                    /\ b.tasks[m].raw = NoResponse
                    /\ \A n \in 1..(m - 1) : b.tasks[n].raw # NoResponse
    IN  [freed EXCEPT
            !.tasks = [m \in 1..Len(b.tasks) |->
                [pc |-> IF m = k THEN "done"
                        ELSE IF m = woken THEN AfterBatchPermit(opt)
                        ELSE b.tasks[m].pc,
                 raw |-> IF m = slot THEN raw ELSE b.tasks[m].raw]]]

\* process_single returns raw: the semaphore of the batch is released and
\* its first waiter, if any, passes
Finished(b, k, raw, opt) ==
    LET woken == Woken(b)
        freed == release(b)
    IN  [freed EXCEPT
            !.tasks = [m \in 1..Len(b.tasks) |->
                IF m = k THEN [pc |-> "done", raw |-> raw]
                ELSE IF m = woken THEN [b.tasks[m] EXCEPT !.pc = AfterBatchPermit(opt)]
                ELSE b.tasks[m]]]

\* make_optimized_request up to session.get: the cache is read; on a miss
\* the next session of the pool is taken
MakeRequest(k) ==
    /\ proc.pc = "batch"
    /\ k \in 1..Len(batch.tasks)
    /\ batch.tasks[k].pc \in {"sleep", "call"}
    /\ LET got == get_cached_response(optimizer, batch.usernames[k], now)
       IN  IF Truthy(got.response)
           THEN /\ optimizer' = got.optimizer
                /\ batch' = Finished(batch, k, got.response, got.optimizer)
           ELSE LET next == get_next_session(got.optimizer)
                IN  /\ optimizer' = next.optimizer
                    /\ IF next.raised
                       THEN batch' = Finished(batch, k, ErrorDict("RuntimeError"),
                                              next.optimizer)
                       ELSE batch' = [batch EXCEPT !.tasks[k].pc = "request"]
    /\ UNCHANGED <<lifeVars, callVars, config, rate_limiter, pc, calls, checkerVars, now, proc, monitor>>

\* the network call of make_optimized_request ends
BatchRespond(k, o) ==
    /\ proc.pc = "batch"
    /\ k \in 1..Len(batch.tasks)
    /\ batch.tasks[k].pc = "request"
    /\ IF o.kind \in {"ok", "array", "empty_object"}
       THEN LET opt == request_succeeded(optimizer, batch.usernames[k], BodyOf(o),
                                         FastLatency, now)
            IN  /\ optimizer' = opt
                /\ batch' = Finished(batch, k, BodyOf(o), opt)
       ELSE LET opt == request_failed(optimizer, o.kind)
            IN  /\ optimizer' = opt
                /\ batch' = Finished(batch, k, ErrorDict(o.kind), opt)
    /\ UNCHANGED <<lifeVars, callVars, config, rate_limiter, pc, calls, checkerVars, now, proc, monitor>>

\* check_username_batch: the loop over raw_results from index k on.  A raw
\* result that is no dict has no get(); result_counts has no key 'error'.
RECURSIVE ConvertFrom(_, _, _)
ConvertFrom(k, counts, batch_results) ==
    IF k > Len(batch.tasks)
    THEN [pc |-> "returned", counts |-> counts, batch_results |-> batch_results]
    ELSE LET raw == batch.tasks[k].raw
             username == batch.usernames[k]
         IN  IF raw.kind = "error_dict"
             THEN ConvertFrom(k + 1, [counts EXCEPT !.errors = @ + 1],
                      Append(batch_results,
                             CheckResult(username, "error", NoCode, raw.error)))
             ELSE IF raw.kind = "array"
             THEN [pc |-> "raised", counts |-> counts, batch_results |-> batch_results]
             ELSE IF StatusOfCode(raw.code) \in DOMAIN counts
             THEN ConvertFrom(k + 1,
                      [counts EXCEPT ![StatusOfCode(raw.code)] = @ + 1],
                      Append(batch_results,
                             CheckResult(username, StatusOfCode(raw.code), raw.code, None)))
             ELSE [pc |-> "raised", counts |-> counts, batch_results |-> batch_results]

\* BatchFinish that reports the size of the batch as the processed count
BatchFinish_counts_batch ==
    /\ proc.pc = "batch"
    /\ \A k \in 1..Len(batch.tasks) : batch.tasks[k].pc = "done"
    /\ LET c == ConvertFrom(1, result_counts, << >>)
           all_results == proc.all_results \o c.batch_results
           nxt == Advance(proc.i, proc.j)
       IN  /\ result_counts' = c.counts
           /\ IF c.pc = "returned"
              THEN /\ proc' = [proc EXCEPT !.pc = "loop", !.i = nxt.i, !.j = nxt.j,
                                           !.all_results = all_results]
                   /\ monitor' = [monitor EXCEPT !.total_processed = Len(c.batch_results),
                                                 !.counts = c.counts]
              ELSE /\ proc' = [proc EXCEPT !.pc = "raised"]
                   /\ monitor' = [monitor EXCEPT !.running = FALSE]
    /\ batch' = NoBatch
    /\ UNCHANGED <<lifeVars, callVars, config, rate_limiter, pc, calls, attempt, tries, all_transient,
                   released, pending, result, fallback, usernames, sleeps, optimizer, now>>

\* gather is complete: check_username_batch converts the raw results; then
\* process_usernames extends all_results and updates the progress, or the
\* exception leaves process_usernames through `finally: monitor.stop()`
BatchFinish ==
    /\ proc.pc = "batch"
    /\ \A k \in 1..Len(batch.tasks) : batch.tasks[k].pc = "done"
    /\ LET c == ConvertFrom(1, result_counts, << >>)
           all_results == proc.all_results \o c.batch_results
           nxt == Advance(proc.i, proc.j)
       IN  /\ result_counts' = c.counts
           /\ IF c.pc = "returned"
              THEN /\ proc' = [proc EXCEPT !.pc = "loop", !.i = nxt.i, !.j = nxt.j,
                                           !.all_results = all_results]
                   /\ monitor' = [monitor EXCEPT !.total_processed = Len(all_results),
                                                 !.counts = c.counts]
              ELSE /\ proc' = [proc EXCEPT !.pc = "raised"]
                   /\ monitor' = [monitor EXCEPT !.running = FALSE]
    /\ batch' = NoBatch
    /\ UNCHANGED <<lifeVars, callVars, config, rate_limiter, pc, calls, attempt, tries, all_transient,
                   released, pending, result, fallback, usernames, sleeps, optimizer, now>>

\* no batch is left: self.results = all_results; return all_results
ProcessFinish ==
    /\ proc.pc = "loop"
    /\ proc.i >= Len(usernames)
    /\ proc' = [proc EXCEPT !.pc = "returned", !.results = proc.all_results]
    /\ monitor' = [monitor EXCEPT !.running = FALSE]
    /\ UNCHANGED <<lifeVars, callVars, config, rate_limiter, pc, calls, checkerVars, optimizer, now, batch>>

\* process_usernames is cancelled while it awaits the gather of a batch
\* (task.cancel(), or the interrupt of asyncio.run): gather cancels the
\* tasks of the batch, CancelledError passes `finally: monitor.stop()` and
\* leaves process_usernames; all_results is a local variable and
\* self.results is not assigned
Cancel ==
    /\ proc.pc = "batch"
    /\ proc' = [proc EXCEPT !.pc = "cancelled"]
    /\ batch' = NoBatch
    /\ monitor' = [monitor EXCEPT !.running = FALSE]
    /\ UNCHANGED <<lifeVars, callVars, config, rate_limiter, pc, calls, checkerVars, optimizer, now>>

\* time passes during the run
Tick ==
    /\ proc.pc \in {"loop", "batch"}
    /\ now < MaxTicks * TickSeconds
    /\ now' = now + TickSeconds
    /\ UNCHANGED <<lifeVars, callVars, config, rate_limiter, pc, calls, checkerVars, optimizer, proc, batch,
                   monitor>>

BatchNext ==
    \/ Enter
    \/ ProcessStart
    \/ BatchStart
    \/ \E k \in 1..MaxInput : BatchAcquire(k)
    \/ \E k \in 1..MaxInput : MakeRequest(k)
    \/ \E k \in 1..MaxInput, o \in BatchOutcomes : BatchRespond(k, o)
    \/ BatchFinish
    \/ ProcessFinish
    \/ Cancel
    \/ Tick

BatchSpec == BatchInit /\ [][BatchNext]_vars

----------------------------------------------------------------------------
(* Claims about process_usernames and check_username_batch, checked under   *)
(* BatchSpec                                                                *)

\* how many results of seq carry this identifier
Occurrences(seq, username) ==
    Cardinality({i \in 1..Len(seq) : seq[i].username = username})

\* how many entries of the input are this identifier
Given(username) ==
    Cardinality({i \in 1..Len(usernames) : usernames[i] = username})

\* C1: for every input list and every endpoint behaviour process_usernames
\* returns a list with exactly one CheckResult per input identifier: same
\* length as the input, same multiset of identifiers.
C1_OneResultPerInput ==
    proc.pc \in {"returned", "raised"}
        => /\ proc.pc = "returned"
           /\ Len(proc.results) = Len(usernames)
           /\ \A i \in 1..Len(usernames) :
                 Occurrences(proc.results, usernames[i]) = Given(usernames[i])

\* the check of identifier k of the current batch failed, or ended with a
\* 200 response whose code is outside {0, 1, 2} or absent
FailedCheck(k) ==
    \/ batch.tasks[k].raw.kind = "error_dict"
    \/ /\ batch.tasks[k].raw.kind \in {"ok", "empty_object"}
       /\ batch.tasks[k].raw.code \notin {0, 1, 2}

\* C3: in check_username_batch a failure of single identifiers (transport
\* exception, non-200 status, 200 with a code outside {0, 1, 2} or absent)
\* becomes an error CheckResult for each of them, and every identifier of
\* the batch gets its result; the run goes on with the next batch.
C3_FailureStaysLocal ==
    [][ ( /\ proc.pc = "batch"
          /\ proc'.pc \notin {"batch", "cancelled"}
          /\ \A k \in 1..Len(batch.tasks) : batch.tasks[k].raw.kind # "array" )
        => /\ proc'.pc = "loop"
           /\ Len(proc'.all_results) = Len(proc.all_results) + Len(batch.tasks)
           /\ \A k \in 1..Len(batch.tasks) :
                 LET r == proc'.all_results[Len(proc.all_results) + k]
                 IN  /\ r.username = batch.usernames[k]
                     /\ FailedCheck(k) => r.status = "error" ]_vars

\* task k of the current batch enters make_optimized_request on this step
EntersRequest(k) ==
    /\ proc.pc = "batch"
    /\ proc'.pc = "batch"
    /\ k \in 1..Len(batch.tasks)
    /\ batch.tasks[k].pc \in {"sleep", "call"}
    /\ batch'.tasks[k].pc \notin {"sleep", "call"}

\* the cache holds an entry for this identifier that is younger than cache_ttl
HasLiveEntry(opt, username, t) ==
    \E i \in 1..Len(opt.response_cache) :
        /\ opt.response_cache[i].key = get_cache_key(username)
        /\ t - opt.response_cache[i].timestamp < cache_ttl

\* the body cached for this identifier
CachedBody(opt, username) ==
    opt.response_cache[CacheIndex(opt.response_cache, get_cache_key(username))].response

\* C11: once make_optimized_request(u) has returned the body b of a 200
\* response (b is then the cache entry of u), a later
\* make_optimized_request(u) that finds the entry younger than cache_ttl
\* issues no network call and returns b, whatever JSON body b is.
C11_CachedBodyReturned ==
    [][ \A k \in 1..MaxInput :
          ( /\ EntersRequest(k)
            /\ HasLiveEntry(optimizer, batch.usernames[k], now) )
          => /\ batch'.tasks[k].pc = "done"
             /\ batch'.tasks[k].raw = CachedBody(optimizer, batch.usernames[k])
             /\ optimizer'.session_index = optimizer.session_index ]_vars

----------------------------------------------------------------------------
(* Specification CacheSpec: the response cache of AdvancedRequestOptimizer  *)
(* under any sequence of cache_response and get_cached_response calls while *)
(* time passes.  The capacity and the size of the sweep, 10000 and 2000 in  *)
(* the source, are scaled down to SmallCapacity and SmallSweep; the code of *)
(* cache_response is the same for every pair of values.                     *)

SmallCapacity == 2
SmallSweep == 2
MaxCacheTicks == 2
CacheTickSeconds == 150

\* one identifier more than the cache can hold
Identifiers == <<"abc12", "take1", "user3", "user4", "user5">>
CacheNames == {Identifiers[i] : i \in 1..(SmallCapacity + 1)}
CacheBodies == {[kind |-> "ok", code |-> 0], [kind |-> "ok", code |-> 1]}

CacheInit ==
    /\ config = DefaultConfig
    /\ rate_limiter = AdaptiveRateLimiter(config)
    /\ pc = [t \in Tasks |-> "idle"]
    /\ calls = 0
    /\ CheckerIdle
    /\ usernames = << >>
    /\ BatchIdle

\* cache_response(username, response)
CallCacheResponse(username, response) ==
    /\ optimizer' = cache_response_sized(optimizer, username, response, now,
                                         SmallCapacity, SmallSweep)
    /\ last_call' = [op |-> "cache_response", arg |-> username, response |-> response,
                     raised |-> FALSE, size_before |-> Len(optimizer.response_cache),
                     returned |-> 0]
    /\ UNCHANGED <<lifeVars, config, rate_limiter, pc, calls, checkerVars, now, proc, batch, monitor,
                   served>>

\* get_cached_response(username)
CallGetCachedResponse(username) ==
    /\ LET got == get_cached_response(optimizer, username, now)
       IN  /\ optimizer' = got.optimizer
           /\ last_call' = [op |-> "get_cached_response", arg |-> username,
                            response |-> got.response, raised |-> FALSE,
                            size_before |-> Len(optimizer.response_cache),
                            returned |-> 0]
    /\ UNCHANGED <<lifeVars, config, rate_limiter, pc, calls, checkerVars, now, proc, batch, monitor,
                   served>>

\* time passes between two calls
CacheTick ==
    /\ now < MaxCacheTicks * CacheTickSeconds
    /\ now' = now + CacheTickSeconds
    /\ UNCHANGED <<lifeVars, callVars, config, rate_limiter, pc, calls, checkerVars, optimizer, proc,
                   batch, monitor>>

CacheNext ==
    \/ \E username \in CacheNames, response \in CacheBodies :
          CallCacheResponse(username, response)
    \/ \E username \in CacheNames : CallGetCachedResponse(username)
    \/ CacheTick

CacheSpec == CacheInit /\ [][CacheNext]_vars

----------------------------------------------------------------------------
(* Claims about the response cache, checked under CacheSpec *)

\* the step is a get_cached_response(username) call
IsGetCachedResponse(username) ==
    /\ now' = now
    /\ last_call'.op = "get_cached_response"
    /\ last_call'.arg = username

\* C12: get_cached_response never returns an entry whose age is cache_ttl or
\* more; a read that finds such an entry returns no value, removes exactly
\* that entry and leaves every other entry as it was.
C12_ExpiredNeverReturned ==
    [][ \A username \in CacheNames :
          IsGetCachedResponse(username)
          => LET cache == optimizer.response_cache
                 after == optimizer'.response_cache
                 found == {i \in 1..Len(cache) : cache[i].key = get_cache_key(username)}
             IN  /\ \A i \in found :
                       now - cache[i].timestamp >= cache_ttl
                       => /\ last_call'.response = NoResponse
                          /\ Len(after) = Len(cache) - 1
                          /\ \A j \in 1..Len(after) :
                                after[j] = IF j < i THEN cache[j] ELSE cache[j + 1]
                 /\ last_call'.response # NoResponse
                       => \E i \in found :
                             /\ now - cache[i].timestamp < cache_ttl
                             /\ last_call'.response = cache[i].response
                             /\ after = cache ]_vars

\* a read has found its entry expired and removed it, and another entry is
\* still there
C12_Witness ==
    /\ last_call.op = "get_cached_response"
    /\ last_call.response = NoResponse
    /\ last_call.size_before = Len(optimizer.response_cache) + 1
    /\ CacheIndex(optimizer.response_cache, get_cache_key(last_call.arg)) = 0
    /\ optimizer.response_cache # << >>

\* C13: after every cache_response call, in any sequence of cache_response
\* and get_cached_response calls, the cache holds at most its capacity: an
\* insert that leaves it above capacity sweeps it back to or below capacity
\* before the call returns.
C13_CacheWithinCapacity ==
    Len(optimizer.response_cache) <= SmallCapacity

\* a cache_response call found the cache full, inserted a new entry and swept;
\* the entry it inserted is still there
C13_Witness ==
    /\ last_call.op = "cache_response"
    /\ last_call.size_before = SmallCapacity
    /\ Len(optimizer.response_cache) = SmallCapacity + 1 - SmallSweep
    /\ CacheIndex(optimizer.response_cache, get_cache_key(last_call.arg)) # 0

----------------------------------------------------------------------------
(* Specification AdaptSpec: record_success and record_error called directly *)
(* on a limiter, with any latency and any error category                    *)

\* a new limiter; one after WarmUp fast successes; one after an error
\* followed by WarmUp + 1 fast successes
LimiterStarts ==
    { AdaptiveRateLimiter(config),
      Warmed(AdaptiveRateLimiter(config), WarmUp),
      Warmed(record_error(AdaptiveRateLimiter(config), "timeout"), WarmUp + 1) }

AdaptInit ==
    /\ config \in LimiterConfigs
    /\ rate_limiter \in LimiterStarts
    /\ pc = [t \in Tasks |-> "idle"]
    /\ calls = 0
    /\ CheckerIdle
    /\ usernames = << >>
    /\ BatchIdle

\* record_success(response_time)
CallRecordSuccess(response_time) ==
    /\ calls < MaxCalls
    /\ calls' = calls + 1
    /\ rate_limiter' = record_success(rate_limiter, response_time)
    /\ last_call' = [NoCall EXCEPT !.op = "record_success"]
    /\ UNCHANGED <<lifeVars, batchVars, config, pc, checkerVars, served>>

\* record_error(error_type)
CallRecordError(error_type) ==
    /\ calls < MaxCalls
    /\ calls' = calls + 1
    /\ rate_limiter' = record_error(rate_limiter, error_type)
    /\ last_call' = [NoCall EXCEPT !.op = "record_error", !.arg = error_type]
    /\ UNCHANGED <<lifeVars, batchVars, config, pc, checkerVars, served>>

AdaptNext ==
    \/ \E response_time \in Latencies : CallRecordSuccess(response_time)
    \/ \E error_type \in ErrorTypes : CallRecordError(error_type)

AdaptSpec == AdaptInit /\ [][AdaptNext]_vars

----------------------------------------------------------------------------
(* Claims about the adaptation rules, checked under AdaptSpec *)

\* C14: with current_concurrent < max_concurrent_requests and
\* current_delay > base_delay, a record_success that makes the success
\* streak at least 10 while the mean of the last 10 latencies is below 0.5 s
\* strictly increases current_concurrent and strictly decreases
\* current_delay, for every configuration.
C14_SuccessStrictlyAdapts ==
    [][ ( /\ calls' = calls + 1
          /\ last_call'.op = "record_success"
          /\ rate_limiter.current_concurrent < config.max_concurrent_requests
          /\ rate_limiter.current_delay > config.base_delay
          /\ rate_limiter'.consecutive_successes >= 10
          /\ SumSeq(LastN(rate_limiter'.response_times, 10))
                < 500 * Min(10, Len(rate_limiter'.response_times)) )
        => /\ rate_limiter'.current_concurrent > rate_limiter.current_concurrent
           /\ rate_limiter'.current_delay < rate_limiter.current_delay ]_vars

\* C15: record_error(category) follows the reference rule.  For a rate-limit
\* category the delay becomes min(max_delay, delay * 2 * backoff_factor), at
\* least double the old delay when backoff_factor >= 1 and the cap is not
\* hit, and the concurrency max(min_concurrent_requests, floor(concurrent /
\* 2)); for any other category the delay becomes min(max_delay, delay *
\* backoff_factor) and the concurrency max(min_concurrent_requests,
\* floor(concurrent * 0.8)).
C15_BackoffRule ==
    [][ \A error_type \in ErrorTypes :
          ( /\ calls' = calls + 1
            /\ last_call'.op = "record_error"
            /\ last_call'.arg = error_type )
          => LET delay == rate_limiter.current_delay
                 concurrent == rate_limiter.current_concurrent
             IN  IF IsRateLimitSignal(error_type)
                 THEN /\ rate_limiter'.current_delay =
                            Min(config.max_delay, (delay * 2 * config.backoff_factor) \div 10)
                      /\ (config.backoff_factor >= 10
                            /\ rate_limiter'.current_delay < config.max_delay)
                         => rate_limiter'.current_delay >= 2 * delay
                      /\ rate_limiter'.current_concurrent =
                            Max(config.min_concurrent_requests, concurrent \div 2)
                 ELSE /\ rate_limiter'.current_delay =
                            Min(config.max_delay, (delay * config.backoff_factor) \div 10)
                      /\ rate_limiter'.current_concurrent =
                            Max(config.min_concurrent_requests, (concurrent * 8) \div 10)
      ]_vars

\* a rate-limit error has more than doubled the delay below the cap and
\* halved the concurrency
C15_Witness ==
    /\ last_call.op = "record_error"
    /\ IsRateLimitSignal(last_call.arg)
    /\ rate_limiter.error_count = 1
    /\ rate_limiter.current_delay >= 2 * config.base_delay
    /\ rate_limiter.current_delay < config.max_delay
    /\ rate_limiter.current_concurrent * 2 = config.initial_concurrent_requests

----------------------------------------------------------------------------
(* More claims about process_usernames, checked under BatchSpec *)

\* process_usernames has returned and every request of the run was answered
\* with HTTP 429
Sustained429 ==
    /\ proc.pc = "returned"
    /\ usernames # << >>
    /\ \A i \in 1..Len(proc.results) : proc.results[i].error_message = ErrorText("429")

\* C16: in a run of process_usernames on an entered checker whose every
\* request is answered with HTTP 429, current_concurrent is driven down to
\* min_concurrent_requests and every identifier ends with an error result
\* after max_retries + 1 attempts.  (make_optimized_request adds 2 to
\* error_streak for every non-200 answer, so half of error_streak is the
\* number of attempts of such a run.)
C16_Sustained429BacksOff ==
    Sustained429
        => /\ rate_limiter.current_concurrent = config.min_concurrent_requests
           /\ \A i \in 1..Len(proc.results) : proc.results[i].status = "error"
           /\ optimizer.error_streak = 2 * (config.max_retries + 1) * Len(usernames)

\* C17: when process_usernames is interrupted after one or more batches
\* have completed, the CheckResults of the completed batches are kept
\* available to the caller in self.results (a cancelled call returns
\* nothing), with no result for an identifier whose check was in flight.
C17_InterruptKeepsResults ==
    [][ ( /\ proc.pc = "batch"
          /\ proc'.pc = "cancelled"
          /\ proc.all_results # << >> )
        => proc'.results = proc.all_results ]_vars

\* the result the claim gives to integer code c
Meaning(c) ==
    IF c = 0 THEN "valid" ELSE IF c = 1 THEN "taken" ELSE IF c = 2 THEN "censored"
    ELSE "error"

\* C18: for a 200 response whose JSON body carries integer code c,
\* check_username_batch produces a result that is 'valid' iff c = 0, 'taken'
\* iff c = 1, 'censored' iff c = 2 and an error-status result for every
\* other c, the mapping of _check_single_username; codes 0 and 1 alone count
\* no error.
C18_CodeMapping ==
    [][ ( /\ proc.pc = "batch"
          /\ proc'.pc \notin {"batch", "cancelled"}
          /\ \A k \in 1..Len(batch.tasks) :
                /\ batch.tasks[k].raw.kind = "ok"
                /\ batch.tasks[k].raw.code # NoCode )
        => /\ proc'.pc = "loop"
           /\ \A k \in 1..Len(batch.tasks) :
                 LET r == proc'.all_results[Len(proc.all_results) + k]
                     c == batch.tasks[k].raw.code
                 IN  /\ r.username = batch.usernames[k]
                     /\ r.code = c
                     /\ r.status = Meaning(c)
                     /\ r.status = StatusOfCode(c)
           /\ (\A k \in 1..Len(batch.tasks) : batch.tasks[k].raw.code \in {0, 1})
                 => result_counts'.errors = result_counts.errors ]_vars

\* a check of the current batch that has not passed `async with semaphore`
\* leaves that position on this step
LeavesStart(k) ==
    /\ proc.pc = "batch"
    /\ proc'.pc = "batch"
    /\ k \in 1..Len(batch.tasks)
    /\ batch.tasks[k].pc = "start"
    /\ batch'.tasks[k].pc # "start"

\* C19: when a live cache entry exists for an identifier, its check in
\* process_batch_ultra_fast returns the cached value without a network call,
\* without waiting for a permit of the semaphore and without sleeping the
\* inter-request delay.  (Entries with a truthy body; C11 is about the
\* others.)
C19_CacheHitSkipsLimiter ==
    [][ \A k \in 1..MaxInput :
          ( /\ LeavesStart(k)
            /\ HasLiveEntry(optimizer, batch.usernames[k], now)
            /\ Truthy(CachedBody(optimizer, batch.usernames[k])) )
          => /\ batch'.tasks[k].pc = "done"
             /\ batch'.tasks[k].raw = CachedBody(optimizer, batch.usernames[k]) ]_vars

----------------------------------------------------------------------------
(* Specification PoolSpec: the session pool of an AdvancedRequestOptimizer. *)
(* create_session_pool is called once on the new optimizer, as __aenter__   *)
(* does for the checker main() constructs; get_next_session and             *)
(* close_session_pool are called at any time.                               *)

MaxPoolSize == 5
MaxServed == 12

PoolInit ==
    /\ config = DefaultConfig
    /\ rate_limiter = AdaptiveRateLimiter(config)
    /\ pc = [t \in Tasks |-> "idle"]
    /\ calls = 0
    /\ CheckerIdle
    /\ usernames = << >>
    /\ BatchIdle

\* create_session_pool(pool_size)
CreateSessionPool(pool_size) ==
    /\ served.pool_size = 0
    /\ optimizer' = [optimizer EXCEPT !.session_pool = @ + pool_size]
    /\ served' = [pool_size |-> pool_size, sessions |-> << >>]
    /\ last_call' = [NoCall EXCEPT !.op = "create_session_pool"]
    /\ UNCHANGED <<lifeVars, config, rate_limiter, pc, calls, checkerVars, now, proc, batch, monitor>>

\* get_next_session()
CallGetNextSession ==
    /\ Len(served.sessions) < MaxServed
    /\ LET got == get_next_session(optimizer)
       IN  /\ optimizer' = got.optimizer
           /\ last_call' = [NoCall EXCEPT !.op = "get_next_session", !.raised = got.raised]
           /\ served' = IF got.raised THEN served
                        ELSE [served EXCEPT !.sessions = Append(@, got.session)]
    /\ UNCHANGED <<lifeVars, config, rate_limiter, pc, calls, checkerVars, now, proc, batch, monitor>>

\* close_session_pool(): every session is closed, session_pool.clear()
CloseSessionPool ==
    /\ optimizer' = [optimizer EXCEPT !.session_pool = 0]
    /\ last_call' = [NoCall EXCEPT !.op = "close_session_pool"]
    /\ UNCHANGED <<lifeVars, config, rate_limiter, pc, calls, checkerVars, now, proc, batch, monitor,
                   served>>

PoolNext ==
    \/ \E pool_size \in 1..MaxPoolSize : CreateSessionPool(pool_size)
    \/ CallGetNextSession
    \/ CloseSessionPool

PoolSpec == PoolInit /\ [][PoolNext]_vars

----------------------------------------------------------------------------
(* Claims about the session pool, checked under PoolSpec *)

----------------------------------------------------------------------------
(* Specification LifeSpec: `async with UltraUsernameChecker(config) as       *)
(* checker` of main(), step by step: __aenter__, the body (whose requests   *)
(* borrow sessions of the pool), __aexit__.  Making a session and closing   *)
(* one can raise; when __aenter__ raises the async with statement does not  *)
(* call __aexit__.                                                          *)
(*                                                                          *)
(* Positions:                                                               *)
(*   new        the checker is constructed                                  *)
(*   pool       __aenter__: _create_session done, create_session_pool runs  *)
(*   entered    the body of the async with statement runs                   *)
(*   exit_main  __aexit__ begins: await self._close_session()               *)
(*   exit_pool  __aexit__: close_session_pool, closing session after session*)
(*   left       the async with statement is over                            *)

RunOutcomes == {"returned", "raised", "cancelled"}

LifeInit ==
    /\ config = DefaultConfig
    /\ rate_limiter = AdaptiveRateLimiter(config)
    /\ pc = [t \in Tasks |-> "idle"]
    /\ calls = 0
    /\ CheckerIdle
    /\ usernames = << >>
    /\ BatchIdle

\* __aenter__: await self._create_session()
CreateSession(ok) ==
    /\ ctx.pc = "new"
    /\ IF ok
       THEN /\ client_sessions' = [client_sessions EXCEPT !.main = "open"]
            /\ ctx' = [ctx EXCEPT !.pc = "pool"]
       ELSE /\ ctx' = [pc |-> "left", outcome |-> "enter_failed"]
            /\ UNCHANGED client_sessions
    /\ UNCHANGED <<callVars, config, rate_limiter, pc, calls, checkerVars, batchVars>>

\* create_session_pool(pool_size=5): one more turn of its loop, or its end
\* and the rest of __aenter__
CreatePoolSession(ok) ==
    /\ ctx.pc = "pool"
    /\ IF optimizer.session_pool = PoolSize
       THEN /\ ctx' = [ctx EXCEPT !.pc = "entered"]
            /\ UNCHANGED <<client_sessions, optimizer>>
       ELSE IF ok
       THEN /\ client_sessions' = [client_sessions EXCEPT !.pool = Append(@, "open")]
            /\ optimizer' = [optimizer EXCEPT !.session_pool = @ + 1]
            /\ UNCHANGED ctx
       ELSE /\ ctx' = [pc |-> "left", outcome |-> "enter_failed"]
            /\ UNCHANGED <<client_sessions, optimizer>>
    /\ UNCHANGED <<callVars, config, rate_limiter, pc, calls, checkerVars, now, proc, batch,
                   monitor>>

\* the body: a request borrows the next session of the pool
BorrowSession ==
    /\ ctx.pc = "entered"
    /\ optimizer' = get_next_session(optimizer).optimizer
    /\ UNCHANGED <<lifeVars, callVars, config, rate_limiter, pc, calls, checkerVars, now, proc,
                   batch, monitor>>

\* the body ends: process_usernames has returned, has raised, or was
\* cancelled; __aexit__ is called in each case
RunEnds(outcome) ==
    /\ ctx.pc = "entered"
    /\ ctx' = [pc |-> "exit_main", outcome |-> outcome]
    /\ UNCHANGED <<client_sessions, callVars, config, rate_limiter, pc, calls, checkerVars,
                   batchVars>>

\* __aexit__: await self._close_session()
CloseSession(ok) ==
    /\ ctx.pc = "exit_main"
    /\ IF ok
       THEN /\ client_sessions' = [client_sessions EXCEPT !.main = "closed"]
            /\ ctx' = [ctx EXCEPT !.pc = "exit_pool"]
       ELSE /\ ctx' = [pc |-> "left", outcome |-> "exit_failed"]
            /\ UNCHANGED client_sessions
    /\ UNCHANGED <<callVars, config, rate_limiter, pc, calls, checkerVars, batchVars>>

\* the sessions of the pool the loop of close_session_pool has not closed yet
StillOpen == {i \in 1..Len(client_sessions.pool) : client_sessions.pool[i] = "open"}

\* close_session_pool: await session.close() for the next session, or the
\* end of the loop and self.session_pool.clear()
ClosePoolSession(ok) ==
    /\ ctx.pc = "exit_pool"
    /\ IF StillOpen = {}
       THEN /\ optimizer' = [optimizer EXCEPT !.session_pool = 0]
            /\ ctx' = [ctx EXCEPT !.pc = "left"]
            /\ UNCHANGED client_sessions
       ELSE IF ok
       THEN /\ LET i == CHOOSE i \in StillOpen : \A j \in StillOpen : i <= j
               IN  client_sessions' = [client_sessions EXCEPT !.pool[i] = "closed"]
            /\ UNCHANGED <<ctx, optimizer>>
       ELSE /\ ctx' = [pc |-> "left", outcome |-> "exit_failed"]
            /\ UNCHANGED <<client_sessions, optimizer>>
    /\ UNCHANGED <<callVars, config, rate_limiter, pc, calls, checkerVars, now, proc, batch,
                   monitor>>

LifeNext ==
    \/ \E ok \in BOOLEAN : CreateSession(ok)
    \/ \E ok \in BOOLEAN : CreatePoolSession(ok)
    \/ BorrowSession
    \/ \E outcome \in RunOutcomes : RunEnds(outcome)
    \/ \E ok \in BOOLEAN : CloseSession(ok)
    \/ \E ok \in BOOLEAN : ClosePoolSession(ok)

LifeSpec == LifeInit /\ [][LifeNext]_vars

----------------------------------------------------------------------------
(* Claims about the sessions of a run, checked under LifeSpec *)

\* C21: every session opened when the checker is entered (the main session
\* and the sessions of the pool) is closed once the run has ended, whether
\* the run completed, process_usernames raised, a step of entering or
\* leaving the context failed or the run was interrupted; the session pool
\* is then empty.
C21_SessionsClosed ==
    ctx.pc = "left"
        => /\ client_sessions.main # "open"
           /\ \A i \in 1..Len(client_sessions.pool) : client_sessions.pool[i] # "open"
           /\ optimizer.session_pool = 0

----------------------------------------------------------------------------
(* More claims about the rate limiter, checked under Spec *)

\* C22: resizing preserves the outstanding permit count: after any
\* interleaving of acquire, release, record_success and record_error, held
\* permits + available permits = current_concurrent whenever held <=
\* current_concurrent; with no permit held the semaphore offers exactly
\* current_concurrent permits.
C22_PermitsAddUp ==
    Cardinality(Held) <= rate_limiter.current_concurrent
        => Cardinality(Held) + rate_limiter.semaphore.value
              = rate_limiter.current_concurrent

----------------------------------------------------------------------------
(* Cancellation of _check_single_username tasks *)

\* the places where a task of _check_single_username is suspended: in
\* Semaphore.acquire(), in the sleep of acquire(), in session.get(url), in
\* the backoff sleep inside the try block, in the backoff sleep of an except
\* handler
SuspensionPoints == {"sem_wait", "delay", "holding", "backoff_in", "backoff_out"}

\* the suspension points inside the inner try block, whose finally clause
\* calls self.rate_limiter.release()
InsideTry == {"holding", "backoff_in"}

\* the semaphore without task t among its waiters (Semaphore.acquire()
\* removes the future of a cancelled waiter)
WithoutWaiter(rl, t) ==
    [rl EXCEPT !.semaphore.waiters = SelectSeq(@, LAMBDA u : u # t)]

\* Task.cancel() on the task of username t: CancelledError is raised at the
\* await the task is suspended in. No except clause of the function names
\* it; the finally clause of the inner try block releases the permit, and
\* await self.rate_limiter.acquire() stands in front of that block.
CancelTask(t) ==
    /\ pc[t] \in SuspensionPoints
    /\ fallback.pc = "gather"
    /\ IF pc[t] \in InsideTry
       THEN /\ rate_limiter' = release(rate_limiter)
            /\ released' = [released EXCEPT ![t] = @ + 1]
            /\ pc' = Moved(t, "cancelled", Woken(rate_limiter), rate_limiter)
       ELSE /\ rate_limiter' = WithoutWaiter(rate_limiter, t)
            /\ pc' = [pc EXCEPT ![t] = "cancelled"]
            /\ UNCHANGED released
    /\ pending' = [pending EXCEPT ![t] = None]
    /\ UNCHANGED <<lifeVars, callVars, batchVars, config, calls, attempt, tries,
                   all_transient, result, result_counts, fallback, usernames, sleeps>>

CancelNext ==
    \/ CheckerNext
    \/ \E t \in Tasks : CancelTask(t)

CancelSpec == CheckerInit /\ [][CancelNext]_vars

\* the permits task t has taken and not given back
PermitsOf(t) == IF t \in Held THEN 1 ELSE 0

\* C23: if a _check_single_username task is cancelled at any of its
\* suspension points (waiting for a permit, sleeping the inter-request delay
\* inside acquire(), waiting on the network call, sleeping a backoff), every
\* permit it had taken is released: the cancellation does to the semaphore
\* what release() does when the task held a permit.
C23_CancelReleasesPermits ==
    [][\A t \in Tasks :
          (pc[t] # "cancelled" /\ pc'[t] = "cancelled" /\ PermitsOf(t) = 1)
              => rate_limiter'.semaphore = release(rate_limiter).semaphore]_vars

----------------------------------------------------------------------------
(* More claims about the batch path, checked under BatchSpec *)

\* the tasks of the batch that are past the semaphore: sleeping the adaptive
\* delay, about to call make_optimized_request, or in the network call
PastSemaphore ==
    {k \in 1..Len(batch.tasks) : batch.tasks[k].pc \in {"sleep", "call", "request"}}

\* C24: during process_batch_ultra_fast the number of identifiers of the
\* batch that are simultaneously past the semaphore never exceeds the rate
\* limiter's current_concurrent as read when that batch started, and
\* process_usernames never has two batches in flight at once: a batch
\* starts only when none is in flight, and the batch in flight is not
\* replaced by another one.
C24_BoundedFanOut ==
    /\ [](Cardinality(PastSemaphore) <= monitor.current_concurrent)
    /\ [][/\ (proc.pc # "batch" /\ proc'.pc = "batch") => batch = NoBatch
          /\ (proc.pc = "batch" /\ proc'.pc = "batch")
                => batch'.usernames = batch.usernames]_vars

\* the cap binds: as many identifiers as the ceiling allows, and more than
\* one, are past the semaphore while another one of the batch waits for it
C24_Witness ==
    /\ proc.pc = "batch"
    /\ monitor.current_concurrent >= 2
    /\ Cardinality(PastSemaphore) = monitor.current_concurrent
    /\ \E k \in 1..Len(batch.tasks) : batch.tasks[k].pc = "sem_wait"
    /\ \E k \in 1..Len(batch.tasks) : batch.tasks[k].pc = "request"

\* C25: within process_usernames every batch handed to check_username_batch
\* contains at most as many identifiers as the rate limiter's
\* current_concurrent read when that batch starts, for every configuration
\* of batch_size, chunk_size and concurrency limits.
C25_BatchWithinCeiling ==
    proc.pc = "batch" => Len(batch.usernames) <= monitor.current_concurrent

\* the network call of task k of the batch ends in this step
EndsRequest(k) ==
    /\ proc.pc = "batch"
    /\ proc'.pc = "batch"
    /\ k \in 1..Len(batch.tasks)
    /\ batch.tasks[k].pc = "request"
    /\ batch'.tasks[k].pc = "done"

\* C26: in a run of process_usernames, every check that ends with a 200
\* response both records a success on the rate limiter (record_success) and
\* stores the response in the cache, and every check that ends with a
\* non-200 status or transport error records an error on the rate limiter.
C26_OutcomesReachLimiter ==
    [][ \A k \in 1..MaxInput :
          EndsRequest(k) =>
              IF batch'.tasks[k].raw.kind # "error_dict"
              THEN /\ rate_limiter'.success_count = rate_limiter.success_count + 1
                   /\ rate_limiter'.consecutive_successes
                         = rate_limiter.consecutive_successes + 1
                   /\ HasLiveEntry(optimizer', batch.usernames[k], now)
                   /\ CachedBody(optimizer', batch.usernames[k]) = batch'.tasks[k].raw
              ELSE /\ rate_limiter'.error_count = rate_limiter.error_count + 1
                   /\ rate_limiter'.consecutive_errors
                         = rate_limiter.consecutive_errors + 1 ]_vars

----------------------------------------------------------------------------
(* More claims about the fallback path, checked under CheckerSpec *)

\* _check_username_batch_fallback is over and one of its calls had exhausted
\* its retries
ExhaustedInBatch ==
    /\ fallback.pc \in {"returned", "raised"}
    /\ \E t \in Tasks : pc[t] = "returned" /\ result[t] = Exhausted(t)

\* C27: in _check_username_batch_fallback, an identifier whose check
\* exhausts its retries yields an error CheckResult that is included in the
\* returned batch and counted once in the error counter, and the results of
\* the other identifiers of the batch are returned as well.
C27_ExhaustedIsAResult ==
    ExhaustedInBatch
        => /\ fallback.pc = "returned"
           /\ Len(fallback.batch_results) = NumTasks
           /\ \A t \in Tasks :
                 /\ fallback.batch_results[t].username = usernames[t]
                 /\ result[t] = Exhausted(t) => fallback.batch_results[t] = Exhausted(t)
           /\ result_counts.errors
                 = Cardinality({t \in Tasks : pc[t] = "raised" \/ result[t].status = "error"})

----------------------------------------------------------------------------
(* Duplicate identifiers in a batch, checked under BatchSpec *)

\* tasks k and m of the batch check the same identifier
SameIdentifier(k, m) ==
    /\ k # m
    /\ batch.usernames[k] = batch.usernames[m]

\* C28: when the same identifier occurs twice in one batch so that two
\* checks of it are in flight together in process_batch_ultra_fast, at most
\* one network call is issued for that identifier (and both checks return
\* the same result): two tasks of the same identifier are never both in a
\* network call.
C28_OneCallPerIdentifier ==
    \A k, m \in 1..Len(batch.tasks) :
        SameIdentifier(k, m)
            => ~(batch.tasks[k].pc = "request" /\ batch.tasks[m].pc = "request")

----------------------------------------------------------------------------
(* Specification SweepSpec: cache_response called on an optimizer whose      *)
(* cache holds SweepCapacity entries, of which a sweep deletes SweepCut (in  *)
(* place of 10000 and 2000), so that entries other than the new one survive  *)
(* a sweep                                                                   *)

SweepCapacity == 3
SweepCut == 2

SweepNames == {Identifiers[i] : i \in 1..(SweepCapacity + 1)}

\* cache_response(username, response), with get_cache_key and time.time()
InsertAndSweep(username, response) ==
    /\ optimizer' = cache_response_sized(optimizer, username, response, now,
                                         SweepCapacity, SweepCut)
    /\ last_call' = [op |-> "cache_response", arg |-> username, response |-> response,
                     raised |-> FALSE, size_before |-> Len(optimizer.response_cache),
                     returned |-> 0]
    /\ UNCHANGED <<lifeVars, config, rate_limiter, pc, calls, checkerVars, now, proc, batch, monitor,
                   served>>

SweepNext ==
    \/ \E username \in SweepNames : InsertAndSweep(username, [kind |-> "ok", code |-> 0])
    \/ CacheTick

SweepSpec == CacheInit /\ [][SweepNext]_vars

\* the step is a cache_response call
IsCacheResponse == now' = now /\ last_call'.op = "cache_response"

\* the entries of the cache that the step removes
Removed ==
    {i \in 1..Len(optimizer.response_cache) :
        CacheIndex(optimizer'.response_cache, optimizer.response_cache[i].key) = 0}

\* C29: under a non-decreasing clock, the sweep triggered when a
\* cache_response insert takes the cache past capacity removes only entries
\* whose insertion timestamp is less than or equal to that of every
\* surviving entry, and never removes the entry that was just inserted; this
\* includes inserts that overwrite an existing key and states where several
\* entries share one timestamp.
C29_SweepRemovesOldest ==
    [][ IsCacheResponse =>
          LET cache == optimizer'.response_cache
              n == CacheIndex(cache, get_cache_key(last_call'.arg))
          IN  /\ \A i \in Removed : \A j \in 1..Len(cache) :
                    optimizer.response_cache[i].timestamp <= cache[j].timestamp
              /\ n # 0
              /\ cache[n].timestamp = now
              /\ cache[n].response = last_call'.response ]_vars

\* a sweep has just run on a full cache, after time has passed: the entry
\* just inserted is there, next to a survivor of the same timestamp (an
\* entry overwritten or inserted at the same instant), older entries gone
C29_Witness ==
    /\ last_call.op = "cache_response"
    /\ last_call.size_before = SweepCapacity
    /\ Len(optimizer.response_cache) = SweepCapacity + 1 - SweepCut
    /\ now > 0
    /\ \E n \in 1..Len(optimizer.response_cache) :
          /\ optimizer.response_cache[n].key = get_cache_key(last_call.arg)
          /\ optimizer.response_cache[n].timestamp = now
          /\ \E j \in 1..Len(optimizer.response_cache) :
                j # n /\ optimizer.response_cache[j].timestamp = now

----------------------------------------------------------------------------
(* More claims about record_success and record_error, checked under AdaptSpec *)

\* C30: after any sequence of record_success and record_error calls at most
\* one of consecutive_successes and consecutive_errors is non-zero:
\* record_success raises the success streak by exactly 1 and sets the error
\* streak to 0, and record_error raises the error streak by exactly 1 and
\* sets the success streak to 0.
C30_OneStreakAtATime ==
    /\ [](rate_limiter.consecutive_successes = 0 \/ rate_limiter.consecutive_errors = 0)
    /\ [][ /\ (calls' = calls + 1 /\ last_call'.op = "record_success")
                => /\ rate_limiter'.consecutive_successes
                         = rate_limiter.consecutive_successes + 1
                   /\ rate_limiter'.consecutive_errors = 0
           /\ (calls' = calls + 1 /\ last_call'.op = "record_error")
                => /\ rate_limiter'.consecutive_errors
                         = rate_limiter.consecutive_errors + 1
                   /\ rate_limiter'.consecutive_successes = 0 ]_vars

\* a streak of errors that followed a streak of successes has been ended by
\* a success
C30_Witness ==
    /\ last_call.op = "record_success"
    /\ rate_limiter.consecutive_successes = 1
    /\ rate_limiter.consecutive_errors = 0
    /\ rate_limiter.error_count >= 2
    /\ rate_limiter.success_count > WarmUp

----------------------------------------------------------------------------
(* Specification WindowSpec: record_success called on a new limiter whose    *)
(* window of latencies is cut to SmallKeep once it holds more than           *)
(* SmallWindow (in place of 50 and 100)                                      *)

SmallWindow == 4
SmallKeep == 2
MaxWindowCalls == 7

WindowInit ==
    /\ config \in LimiterConfigs
    /\ rate_limiter = AdaptiveRateLimiter(config)
    /\ pc = [t \in Tasks |-> "idle"]
    /\ calls = 0
    /\ CheckerIdle
    /\ usernames = << >>
    /\ BatchIdle

\* record_success(response_time)
WindowRecordSuccess(response_time) ==
    /\ calls < MaxWindowCalls
    /\ calls' = calls + 1
    /\ rate_limiter' = record_success_sized(rate_limiter, response_time,
                                            SmallWindow, SmallKeep)
    /\ last_call' = [NoCall EXCEPT !.op = "record_success"]
    /\ UNCHANGED <<lifeVars, batchVars, config, pc, checkerVars, served>>

WindowNext == \E response_time \in Latencies : WindowRecordSuccess(response_time)

WindowSpec == WindowInit /\ [][WindowNext]_vars

\* C31: after any sequence of record_success calls the rate limiter's
\* response_times window holds at most its limit of latencies (100); the
\* call that would take it past the limit cuts it to its most recent
\* latencies (50) in their original order, so every call leaves a window
\* that is a suffix of the old window followed by the new latency, and the
\* window is always a suffix of the sequence of recorded latencies.
C31_WindowIsSuffix ==
    /\ [](Len(rate_limiter.response_times) <= SmallWindow)
    /\ [][ calls' = calls + 1 =>
             \E response_time \in Latencies :
                LET appended == Append(rate_limiter.response_times, response_time)
                IN  IF Len(appended) > SmallWindow
                    THEN rate_limiter'.response_times
                            = SubSeq(appended, Len(appended) - SmallKeep + 1, Len(appended))
                    ELSE rate_limiter'.response_times = appended ]_vars

\* the window has just been cut: it holds SmallKeep latencies, not all the
\* same, after more calls than the window can hold
C31_Witness ==
    /\ rate_limiter.success_count > SmallWindow
    /\ Len(rate_limiter.response_times) = SmallKeep
    /\ rate_limiter.response_times[1] # rate_limiter.response_times[SmallKeep]

----------------------------------------------------------------------------
(* Specification BackoffSpec: one _check_single_username call with two or   *)
(* three retries, every attempt ending in any of the outcomes               *)

BackoffConfigs ==
    { MakeConfig(1, 1, 2, 100, 200, 2, 2, 4),
      MakeConfig(1, 2, 3, 100, 200, 3, 2, 4) }

BackoffInit ==
    /\ config \in BackoffConfigs
    /\ rate_limiter = AdaptiveRateLimiter(config)
    /\ pc = [t \in Tasks |-> "idle"]
    /\ calls = 0
    /\ CheckerIdle
    /\ usernames = [t \in Tasks |-> UsernameAt(t)]
    /\ BatchIdle

\* _check_single_username(usernames[1]) is called
StartOne ==
    /\ fallback.pc = "idle"
    /\ fallback' = [fallback EXCEPT !.pc = "gather"]
    /\ pc' = [pc EXCEPT ![1] = "start"]
    /\ UNCHANGED <<lifeVars, callVars, batchVars, config, rate_limiter, calls, attempt, tries,
                   all_transient, released, pending, result, result_counts, usernames, sleeps>>

BackoffNext ==
    \/ StartOne
    \/ TaskStep(1)

BackoffSpec == BackoffInit /\ [][BackoffNext]_vars

\* C32: in _check_single_username the backoff sleep after failed attempt k
\* (k = 0 .. max_retries - 1) lasts retry_delay * 2^k whatever the kind of
\* failure (timeout, connection error, 429, other status, parse error), so
\* successive sleeps of one identifier double, and no sleep follows the
\* final attempt: the first sleep lasts retry_delay, each later one twice
\* the one before, an attempt that is not the last ends in a sleep unless
\* it ends the call, and the last attempt ends in none.
C32_BackoffDoubles ==
    /\ [](\A t \in Tasks :
            /\ Len(sleeps[t]) <= config.max_retries
            /\ Len(sleeps[t]) <= attempt[t] + 1
            /\ \A i \in 1..Len(sleeps[t]) :
                  sleeps[t][i] = IF i = 1 THEN config.retry_delay
                                 ELSE 2 * sleeps[t][i - 1]
            /\ pc[t] \in {"backoff_in", "backoff_out"}
                  => Len(sleeps[t]) = attempt[t] + 1)
    /\ [][\A t \in Tasks :
            (pc[t] = "holding" /\ pc'[t] # "holding")
               => IF attempt[t] < config.max_retries
                  THEN \/ /\ pc'[t] \in {"backoff_in", "backoff_out"}
                          /\ Len(sleeps'[t]) = Len(sleeps[t]) + 1
                       \/ /\ pending'[t] \in {"return", "raise"}
                          /\ result'[t].error_message # "JSON parsing error"
                          /\ sleeps'[t] = sleeps[t]
                  ELSE /\ pc'[t] \notin {"backoff_in", "backoff_out"}
                       /\ sleeps'[t] = sleeps[t]]_vars

\* a call has ended after three sleeps, the last four times the first,
\* and a fourth attempt
C32_Witness ==
    /\ pc[1] = "returned"
    /\ Len(sleeps[1]) = 3
    /\ sleeps[1][3] = 4 * config.retry_delay
    /\ tries[1] = 4
    /\ result[1] = Exhausted(1)

----------------------------------------------------------------------------
(* Claims about the telemetry, checked under BatchSpec *)

\* valid + taken + censored + errors
CountsTotal(counts) == counts.valid + counts.taken + counts.censored + counts.errors

\* check_username_batch has returned and update_progress is called
UpdatesProgress == proc.pc = "batch" /\ proc'.pc = "loop"

\* C33: after every batch of process_usernames the telemetry sink receives
\* a processed count equal to the number of CheckResults accumulated so far,
\* and the per-outcome counters satisfy valid + taken + censored + errors =
\* that number; the processed count never decreases and never exceeds the
\* input length.
C33_TelemetryAddsUp ==
    /\ [](/\ CountsTotal(monitor.counts) = monitor.total_processed
          /\ monitor.total_processed <= Len(usernames)
          /\ proc.pc \in {"loop", "batch", "returned"}
                => monitor.total_processed = Len(proc.all_results))
    /\ [][/\ monitor'.total_processed >= monitor.total_processed
          /\ UpdatesProgress
                => /\ Len(proc'.all_results) = Len(proc.all_results) + Len(batch.usernames)
                   /\ monitor'.total_processed = Len(proc'.all_results)
                   /\ monitor'.counts = result_counts']_vars

\* the sink has been fed after a second batch: more results than one batch
\* holds, errors and valid identifiers among them
C33_Witness ==
    /\ proc.pc = "loop"
    /\ monitor.total_processed > config.batch_size
    /\ monitor.total_processed = Len(proc.all_results)
    /\ monitor.counts.errors >= 1
    /\ monitor.counts.valid >= 1

----------------------------------------------------------------------------
(* performance_monitor.py: PerformanceMonitor._monitor_loop; specification  *)
(* TelemetrySpec: a run of process_usernames during which a method of the   *)
(* monitor starts to raise an exception on every call                       *)
(*                                                                          *)
(* monitor.loop, the position of the task of _monitor_loop:                 *)
(*   off       not created yet (monitor.start() has not run)                *)
(*   ready     about to run an iteration                                    *)
(*   sleeping  in asyncio.sleep(progress_update_interval)                   *)
(*   spinning  every iteration raises before its sleep: `continue` starts   *)
(*             the next one, and neither _update_metrics nor                *)
(*             _update_display awaits anything that suspends, so the task   *)
(*             never gives the event loop back                              *)

Faults == {"_update_metrics", "_update_display", "update_progress", "update_concurrent"}

\* the answers of the endpoint in these runs
TelemetryOutcomes == {o \in BatchOutcomes : o.kind \in {"ok", "timeout"} /\ o.code \in {0, NoCode}}

\* the event loop can run a task other than the monitor loop
LoopFree == monitor.loop # "spinning"

\* from now on every call of method f of the monitor raises
SinkBreaks(f) ==
    /\ monitor.fault = "none"
    /\ LoopFree
    /\ monitor' = [monitor EXCEPT !.fault = f]
    /\ UNCHANGED <<lifeVars, callVars, config, rate_limiter, pc, calls, checkerVars, optimizer, now,
                   proc, batch>>

\* one iteration of _monitor_loop: _update_metrics (which notes the
\* processed count it has seen), _update_display, then the sleep; an
\* Exception is caught and followed by `continue`
MonitorIteration ==
    /\ monitor.loop = "ready"
    /\ monitor' = [monitor EXCEPT
          !.last_processed_count =
              IF monitor.fault = "_update_metrics" THEN @ ELSE monitor.total_processed,
          !.loop =
              IF monitor.fault \in {"_update_metrics", "_update_display"}
              THEN "spinning" ELSE "sleeping"]
    /\ UNCHANGED <<lifeVars, callVars, config, rate_limiter, pc, calls, checkerVars, optimizer, now,
                   proc, batch>>

\* the sleep of _monitor_loop is over
MonitorWake ==
    /\ monitor.loop = "sleeping"
    /\ monitor' = [monitor EXCEPT !.loop = "ready"]
    /\ UNCHANGED <<lifeVars, callVars, config, rate_limiter, pc, calls, checkerVars, optimizer, now,
                   proc, batch>>

\* self.monitor.update_concurrent(...) raises: the exception leaves
\* process_usernames through `finally: await self.monitor.stop()`
UpdateConcurrentRaises ==
    /\ monitor.fault = "update_concurrent"
    /\ proc.pc = "loop"
    /\ proc.i < Len(usernames)
    /\ proc' = [proc EXCEPT !.pc = "sink_raised"]
    /\ monitor' = [monitor EXCEPT !.running = FALSE]
    /\ UNCHANGED <<lifeVars, callVars, config, rate_limiter, pc, calls, checkerVars, optimizer, now,
                   batch>>

\* self.monitor.update_progress(...) raises after check_username_batch has
\* returned: the exception leaves process_usernames the same way
UpdateProgressRaises ==
    /\ monitor.fault = "update_progress"
    /\ proc.pc = "batch"
    /\ \A k \in 1..Len(batch.tasks) : batch.tasks[k].pc = "done"
    /\ LET c == ConvertFrom(1, result_counts, << >>)
       IN  /\ c.pc = "returned"
           /\ result_counts' = c.counts
           /\ proc' = [proc EXCEPT !.pc = "sink_raised",
                                   !.all_results = proc.all_results \o c.batch_results]
    /\ monitor' = [monitor EXCEPT !.running = FALSE]
    /\ batch' = NoBatch
    /\ UNCHANGED <<lifeVars, callVars, config, rate_limiter, pc, calls, attempt, tries, all_transient,
                   released, pending, result, fallback, usernames, sleeps, optimizer, now>>

\* the steps of the run are taken while the event loop is free
TelemetryNext ==
    \/ \E f \in Faults : SinkBreaks(f)
    \/ MonitorIteration
    \/ LoopFree /\ MonitorWake
    \/ LoopFree /\ Enter
    \/ LoopFree /\ ProcessStart
    \/ LoopFree /\ monitor.fault # "update_concurrent" /\ BatchStart
    \/ LoopFree /\ UpdateConcurrentRaises
    \/ LoopFree /\ \E k \in 1..MaxInput : BatchAcquire(k)
    \/ LoopFree /\ \E k \in 1..MaxInput : MakeRequest(k)
    \/ LoopFree /\ \E k \in 1..MaxInput, o \in TelemetryOutcomes : BatchRespond(k, o)
    \/ /\ LoopFree
       /\ monitor.fault = "update_progress"
             => ConvertFrom(1, result_counts, << >>).pc # "returned"
       /\ BatchFinish
    \/ LoopFree /\ UpdateProgressRaises
    \/ LoopFree /\ ProcessFinish

TelemetrySpec == BatchInit /\ [][TelemetryNext]_vars

\* C34: a failure inside the telemetry sink never aborts or stalls checking:
\* if an update raises in the monitor loop (_update_metrics /
\* _update_display) or in update_progress / update_concurrent called from
\* process_usernames, the failure is swallowed, the check tasks keep being
\* scheduled, and process_usernames still returns all results.
C34_SinkFailureIsHarmless ==
    /\ monitor.loop # "spinning"
    /\ proc.pc # "sink_raised"

----------------------------------------------------------------------------
(* Specification DelaySpec: get_adaptive_delay called on optimizers that    *)
(* have seen streaks of successes and of failures, around the thresholds    *)
(* of the function                                                          *)

MaxDelayCalls == 2

\* base_delay 0.0001 s, 0.001 s and 0.01 s, max_delay above and below the
\* backed-off delay
DelayConfigs ==
    { DefaultConfig,
      MakeConfig(1, 2, 3, 1000, 5000, 1, 2, 4),
      MakeConfig(1, 2, 3, 10000, 500000, 1, 2, 4) }

\* latencies under, at and over 0.2 s, in milliseconds
DelayLatencies == {FastLatency, 200, SlowLatency}

\* opt after n more requests answered 200 with this latency
RECURSIVE Succeeded(_, _, _)
Succeeded(opt, n, response_time) ==
    IF n = 0 THEN opt
    ELSE Succeeded(request_succeeded(opt, "abc12", [kind |-> "ok", code |-> 0],
                                     response_time, 0),
                   n - 1, response_time)

\* opt after n more requests that timed out
RECURSIVE Failed(_, _)
Failed(opt, n) == IF n = 0 THEN opt ELSE Failed(request_failed(opt, "timeout"), n - 1)

DelayInit ==
    /\ config \in DelayConfigs
    /\ rate_limiter = AdaptiveRateLimiter(config)
    /\ pc = [t \in Tasks |-> "idle"]
    /\ calls = 0
    /\ CheckerIdle
    /\ usernames = << >>
    /\ now = 0
    /\ proc = [pc |-> "idle", i |-> 0, j |-> 0, all_results |-> << >>, results |-> << >>]
    /\ batch = NoBatch
    /\ monitor = [running |-> FALSE, total_processed |-> 0, counts |-> NoCounts,
                  current_concurrent |-> 0, last_processed_count |-> 0,
                  loop |-> "off", fault |-> "none"]
    /\ last_call = NoCall
    /\ served = NoPool
    /\ client_sessions = NoSessions
    /\ ctx = NotEntered
    /\ \E older \in {0, 3}, older_time \in DelayLatencies,
          streak \in {0, 19, 20}, response_time \in DelayLatencies,
          errors \in {0, 4, 5, 9, 10} :
          optimizer = Failed(Succeeded(Failed(Succeeded(AdvancedRequestOptimizer,
                                                        older, older_time),
                                              IF older = 0 THEN 0 ELSE 1),
                                       streak, response_time),
                             errors)

\* get_adaptive_delay()
CallGetAdaptiveDelay ==
    /\ last_call' = [NoCall EXCEPT !.op = "get_adaptive_delay",
                                  !.returned = get_adaptive_delay(optimizer)]
    /\ UNCHANGED <<lifeVars, config, rate_limiter, pc, calls, checkerVars, batchVars, served>>

\* a request is answered 200: the bookkeeping of make_optimized_request
DelayRequestSucceeds(response_time) ==
    /\ calls < MaxDelayCalls
    /\ calls' = calls + 1
    /\ optimizer' = request_succeeded(optimizer, "abc12", [kind |-> "ok", code |-> 0],
                                      response_time, now)
    /\ last_call' = [NoCall EXCEPT !.op = "make_optimized_request"]
    /\ UNCHANGED <<lifeVars, config, rate_limiter, pc, checkerVars, now, proc, batch, monitor,
                   served>>

\* a request times out: the bookkeeping of make_optimized_request
DelayRequestFails ==
    /\ calls < MaxDelayCalls
    /\ calls' = calls + 1
    /\ optimizer' = request_failed(optimizer, "timeout")
    /\ last_call' = [NoCall EXCEPT !.op = "make_optimized_request"]
    /\ UNCHANGED <<lifeVars, config, rate_limiter, pc, checkerVars, now, proc, batch, monitor,
                   served>>

DelayNext ==
    \/ CallGetAdaptiveDelay
    \/ \E response_time \in DelayLatencies : DelayRequestSucceeds(response_time)
    \/ DelayRequestFails

DelaySpec == DelayInit /\ [][DelayNext]_vars

\* the mean of the last 20 request times is under 0.2 s
FastMean(opt) ==
    SumSeq(LastN(opt.request_times, 20)) < 200 * Min(20, Len(opt.request_times))

\* C35: get_adaptive_delay is a pure read: it changes none of
\* success_streak, error_streak, request_times, the cache, the configured
\* base_delay or the rate limiter's current_delay; it returns half the
\* configured base_delay (floored at 0.0001 s) exactly when success_streak >
\* 20 and the mean of the last 20 request times is below 0.2 s,
\* min(max_delay, base_delay * 1.5^min(error_streak, 10)) when error_streak
\* > 5, and base_delay otherwise.
C35_AdaptiveDelayIsARead ==
    [][ last_call'.op = "get_adaptive_delay" /\ calls' = calls =>
          /\ optimizer' = optimizer
          /\ config' = config
          /\ rate_limiter' = rate_limiter
          /\ LET k == IF optimizer.error_streak < 10 THEN optimizer.error_streak ELSE 10
             IN  last_call'.returned =
                   IF optimizer.success_streak > 20 /\ FastMean(optimizer)
                   THEN (IF config.base_delay \div 2 < 100 THEN 100
                         ELSE config.base_delay \div 2)
                   ELSE IF optimizer.error_streak > 5
                   THEN (IF (config.base_delay * Pow(3, k)) \div Pow(2, k) > config.max_delay
                         THEN config.max_delay
                         ELSE (config.base_delay * Pow(3, k)) \div Pow(2, k))
                   ELSE config.base_delay ]_vars

\* the function has returned half the base delay on a streak of 21 fast
\* successes that followed slower requests
C35_Witness ==
    /\ last_call.op = "get_adaptive_delay"
    /\ optimizer.success_streak = 21
    /\ Len(optimizer.request_times) > 21
    /\ last_call.returned * 2 = config.base_delay
    /\ last_call.returned > 100

----------------------------------------------------------------------------
(* More claims about check_username_batch, checked under BatchSpec          *)

\* task m of the batch in flight returns its raw result in this step
Returns(m) ==
    /\ batch.tasks[m].pc \in {"sleep", "call", "request"}
    /\ batch'.tasks[m].pc = "done"

\* the results that check_username_batch hands to process_usernames in this
\* step
Returned ==
    SubSeq(proc'.all_results, Len(proc.all_results) + 1, Len(proc'.all_results))

\* C36: every CheckResult returned by check_username_batch carries the
\* identifier whose own request produced its status and code, whatever order
\* the concurrent requests of the batch complete in, and the results are
\* returned in the order of the input identifiers: a raw result appears at a
\* position of the batch only when the request of that position returns, a
\* body is the one cached under the identifier of that position, and result
\* k of the batch is made of identifier k and raw result k.
C36_ResultsFollowInput ==
    /\ [](proc.pc = "batch" =>
            \A m \in 1..Len(batch.tasks) :
                batch.tasks[m].pc # "done" => batch.tasks[m].raw = NoResponse)
    /\ [][ /\ proc.pc = "batch" /\ proc'.pc = "batch" =>
                \A m \in 1..Len(batch.tasks) :
                    batch'.tasks[m].raw # batch.tasks[m].raw =>
                        /\ Returns(m)
                        /\ batch'.tasks[m].raw.kind # "error_dict" =>
                             /\ CacheIndex(optimizer'.response_cache,
                                           get_cache_key(batch.usernames[m])) # 0
                             /\ CachedBody(optimizer', batch.usernames[m])
                                  = batch'.tasks[m].raw
           /\ UpdatesProgress =>
                /\ Len(Returned) = Len(batch.usernames)
                /\ \A k \in 1..Len(batch.usernames) :
                      LET raw == batch.tasks[k].raw
                      IN  /\ Returned[k].username = batch.usernames[k]
                          /\ IF raw.kind = "error_dict"
                             THEN /\ Returned[k].status = "error"
                                  /\ Returned[k].error_message = raw.error
                             ELSE /\ Returned[k].code = raw.code
                                  /\ Returned[k].status = StatusOfCode(raw.code) ]_vars

\* two results of different status have been returned and the request of
\* the first identifier was answered after that of the second
C36_Witness ==
    /\ proc.pc \in {"loop", "returned"}
    /\ Len(proc.all_results) >= 2
    /\ proc.all_results[1].username = usernames[1]
    /\ proc.all_results[2].username = usernames[2]
    /\ proc.all_results[1].status = "taken"
    /\ proc.all_results[2].status = "valid"
    /\ CacheIndex(optimizer.response_cache, get_cache_key(usernames[1])) # 0
    /\ CacheIndex(optimizer.response_cache, get_cache_key(usernames[2])) # 0
    /\ optimizer.response_cache[CacheIndex(optimizer.response_cache,
                                           get_cache_key(usernames[1]))].timestamp
         > optimizer.response_cache[CacheIndex(optimizer.response_cache,
                                               get_cache_key(usernames[2]))].timestamp

----------------------------------------------------------------------------
(* Claims about the streaks of AdvancedRequestOptimizer, checked under      *)
(* BatchSpec                                                                *)

\* task k is answered from the cache in this step
CacheHit(k) ==
    /\ proc.pc = "batch"
    /\ proc'.pc = "batch"
    /\ k \in 1..Len(batch.tasks)
    /\ batch.tasks[k].pc \in {"sleep", "call"}
    /\ batch'.tasks[k].pc = "done"
    /\ batch'.tasks[k].raw.kind # "error_dict"

\* C37: in AdvancedRequestOptimizer, each failed make_optimized_request
\* (non-200 status or transport exception) raises error_streak by exactly 1
\* and sets success_streak to 0, each 200 response raises success_streak by
\* exactly 1 and sets error_streak to 0, and a cache hit changes neither
\* streak.
C37_StreaksCountRequests ==
    [][ \A k \in 1..MaxInput :
          /\ EndsRequest(k) =>
                IF batch'.tasks[k].raw.kind = "error_dict"
                THEN /\ optimizer'.error_streak = optimizer.error_streak + 1
                     /\ optimizer'.success_streak = 0
                ELSE /\ optimizer'.success_streak = optimizer.success_streak + 1
                     /\ optimizer'.error_streak = 0
          /\ CacheHit(k) =>
                /\ optimizer'.error_streak = optimizer.error_streak
                /\ optimizer'.success_streak = optimizer.success_streak ]_vars

----------------------------------------------------------------------------
(* Specification RequestSpec: make_optimized_request called directly, one   *)
(* call after the other, while time passes and entries of the cache expire  *)

MaxRequestCalls == 3

RequestNames == {"abc12", "take1"}

\* make_optimized_request that also caches what a failed request got
make_optimized_request_caches_failure(opt, username, o, t) ==
    LET got == get_cached_response(opt, username, t)
        next == get_next_session(got.optimizer)
    IN  IF Truthy(got.response)
        THEN [optimizer |-> got.optimizer, response |-> got.response,
              raised |-> FALSE, session |-> NoSession]
        ELSE IF next.raised
        THEN [optimizer |-> next.optimizer, response |-> NoResponse,
              raised |-> TRUE, session |-> NoSession]
        ELSE IF o.kind \in {"ok", "array", "empty_object"}
        THEN [optimizer |-> request_succeeded(next.optimizer, username, BodyOf(o),
                                              FastLatency, t),
              response |-> BodyOf(o), raised |-> FALSE, session |-> next.session]
        ELSE [optimizer |-> request_failed(cache_response(next.optimizer, username,
                                                          BodyOf(o), t),
                                           o.kind),
              response |-> NoResponse, raised |-> TRUE, session |-> next.session]

\* make_optimized_request(username) at time t when the network answers o: the
\* optimizer afterwards, the body returned or the exception raised, and the
\* session on which the network call was made, if one was made
make_optimized_request(opt, username, o, t) ==
    LET got == get_cached_response(opt, username, t)
        next == get_next_session(got.optimizer)
    IN  IF Truthy(got.response)
        THEN [optimizer |-> got.optimizer, response |-> got.response,
              raised |-> FALSE, session |-> NoSession]
        ELSE IF next.raised
        THEN [optimizer |-> next.optimizer, response |-> NoResponse,
              raised |-> TRUE, session |-> NoSession]
        ELSE IF o.kind \in {"ok", "array", "empty_object"}
        THEN [optimizer |-> request_succeeded(next.optimizer, username, BodyOf(o),
                                              FastLatency, t),
              response |-> BodyOf(o), raised |-> FALSE, session |-> next.session]
        ELSE [optimizer |-> request_failed(next.optimizer, o.kind),
              response |-> NoResponse, raised |-> TRUE, session |-> next.session]

\* make_optimized_request(username)
CallMakeOptimizedRequest(username, o) ==
    /\ calls < MaxRequestCalls
    /\ calls' = calls + 1
    /\ LET r == make_optimized_request(optimizer, username, o, now)
       IN  /\ optimizer' = r.optimizer
           /\ last_call' = [NoCall EXCEPT !.op = "make_optimized_request",
                                         !.arg = username,
                                         !.response = r.response,
                                         !.raised = r.raised,
                                         !.size_before = Len(optimizer.response_cache)]
           /\ served' = IF r.session = NoSession THEN served
                        ELSE [served EXCEPT !.sessions = Append(@, r.session)]
    /\ UNCHANGED <<lifeVars, config, rate_limiter, pc, checkerVars, now, proc, batch, monitor>>

\* time passes between two calls
RequestTick ==
    /\ now < MaxTicks * TickSeconds
    /\ now' = now + TickSeconds
    /\ UNCHANGED <<lifeVars, callVars, config, rate_limiter, pc, calls, checkerVars, optimizer,
                   proc, batch, monitor>>

RequestNext ==
    \/ CreateSessionPool(PoolSize)
    \/ \E username \in RequestNames, o \in BatchOutcomes :
          CallMakeOptimizedRequest(username, o)
    \/ RequestTick

RequestSpec == PoolInit /\ [][RequestNext]_vars

\* a call of make_optimized_request is made in this step
IsRequestCall == last_call'.op = "make_optimized_request" /\ calls' = calls + 1

\* the cache has an entry for this identifier
HasEntry(opt, username) == CacheIndex(opt.response_cache, get_cache_key(username)) # 0

\* C38, as the specification states it: only 200 responses enter the cache:
\* a make_optimized_request that fails (non-200 status or exception) leaves
\* the cache exactly as it was, so after a failed check of an identifier with
\* no prior entry the cache has no entry for it and a later check issues a
\* new network call.
C38_FailureLeavesCache ==
    [][ IsRequestCall /\ last_call'.raised =>
          /\ optimizer'.response_cache = optimizer.response_cache
          /\ ~HasEntry(optimizer, last_call'.arg) => ~HasEntry(optimizer', last_call'.arg)
      ]_vars

\* C38, amended: only 200 responses enter the cache: a make_optimized_request
\* that fails (non-200 status or exception) adds no entry to the cache and
\* changes none; the only entry it can remove is the expired entry of its
\* own identifier, which the lookup at the start of the call deletes.  So
\* after a failed check of an identifier with no prior entry the cache is
\* exactly as it was, has no entry for it, and a later check issues a new
\* network call.
C38_FailureAddsNothing ==
    [][ IsRequestCall =>
          LET username == last_call'.arg
              cache == optimizer.response_cache
              i == CacheIndex(cache, get_cache_key(username))
          IN  /\ last_call'.raised =>
                    \/ optimizer'.response_cache = cache
                    \/ /\ i # 0
                       /\ now - cache[i].timestamp >= cache_ttl
                       /\ optimizer'.response_cache = Without(cache, i)
              /\ last_call'.raised /\ i = 0 =>
                    /\ optimizer'.response_cache = cache
                    /\ ~HasEntry(optimizer', username)
              /\ i = 0 /\ optimizer.session_pool > 0 =>
                    Len(served'.sessions) = Len(served.sessions) + 1
              /\ optimizer'.response_cache # cache /\ HasEntry(optimizer', username) =>
                    /\ ~last_call'.raised
                    /\ CachedBody(optimizer', username) = last_call'.response
      ]_vars

\* a request has failed on the network for an identifier whose entry had
\* expired, and the cache has lost that entry; it was the second network
\* call for that identifier
C38_Witness ==
    /\ last_call.op = "make_optimized_request"
    /\ last_call.raised
    /\ last_call.size_before = 1
    /\ optimizer.response_cache = << >>
    /\ optimizer.error_streak > 0
    /\ Len(served.sessions) = 2

----------------------------------------------------------------------------
(* Specification RepoolSpec: create_session_pool, get_next_session and      *)
(* close_session_pool in any order, the pool being created again after it   *)
(* was closed                                                               *)

\* create_session_pool(pool_size), also on an optimizer that had a pool
\* before: pool_size sessions are appended to session_pool
CreateSessionPoolAgain(pool_size) ==
    /\ optimizer.session_pool + pool_size <= MaxPoolSize
    /\ optimizer' = [optimizer EXCEPT !.session_pool = @ + pool_size]
    /\ served' = [pool_size |-> optimizer.session_pool + pool_size, sessions |-> << >>]
    /\ last_call' = [NoCall EXCEPT !.op = "create_session_pool"]
    /\ UNCHANGED <<lifeVars, config, rate_limiter, pc, calls, checkerVars, now, proc, batch, monitor>>

RepoolNext ==
    \/ \E pool_size \in 1..MaxPoolSize : CreateSessionPoolAgain(pool_size)
    \/ CallGetNextSession
    \/ CloseSessionPool

RepoolSpec == PoolInit /\ [][RepoolNext]_vars

\* C39: after any sequence of create_session_pool, get_next_session and
\* close_session_pool calls on one AdvancedRequestOptimizer (including
\* closing and re-creating the pool with a different size), whenever the
\* pool is non-empty session_index is less than the pool size, so
\* get_next_session returns a session and never fails with an index error.
C39_IndexWithinPool ==
    /\ [](optimizer.session_pool > 0 => optimizer.session_index < optimizer.session_pool)
    /\ [][ last_call'.op = "get_next_session" /\ optimizer.session_pool > 0
             => ~last_call'.raised ]_vars

====
